---- MODULE Spec2Model ----
(***************************************************************************)
(* StudyBuddy AI: the model gateway (services/openrouter_client.py), the   *)
(* response normalizer (utils/formatters.py), the session state            *)
(* (utils/state.py), the validators (utils/validators.py) and the three    *)
(* task flows of the controller (backend/controller.py).                   *)
(*                                                                         *)
(* Text.  A Python str is a sequence of atoms; an atom is a TLA+ string    *)
(* standing for a run of characters, and the str is the concatenation of   *)
(* its atoms.  Whitespace characters and "#" are always atoms of their     *)
(* own, so lstrip / strip / startswith("#") are computed on the atoms.     *)
(* Every other atom is a word or a fixed phrase of the source; Lower gives *)
(* its lower-cased form and Substrings the keywords the code searches for  *)
(* that occur in it, so `kw in s` and `kw in s.lower()` are computed, not  *)
(* assumed.                                                                *)
(***************************************************************************)
EXTENDS Integers, Sequences, FiniteSets, TLC

VARIABLES
    messages,       \* st.session_state["messages"]: the ChatGPT-style list
    chat_history,   \* st.session_state["chat_history"]: the legacy exchange list
    api_key,        \* the key run_app resolved for this session
    run,            \* the record of the last handler invocation
    probe           \* inputs and results of the function-level specifications

vars == <<messages, chat_history, api_key, run, probe>>

(***************************************************************************)
(* Bounds of the model.                                                    *)
(***************************************************************************)
MaxStrLen == 3      \* length of the strings fed to ensure_markdown_headings
MaxTurns == 2       \* chat submissions accepted per session
MaxHistory == 4     \* exchanges in the legacy list handed to the prompt builder

(***************************************************************************)
(* Text helpers.                                                           *)
(***************************************************************************)
\* " * 8000" is a run of 8000 spaces.
Whitespace == {" ", "\n", "\t", " * 8000"}

\* str.lstrip(): drop the leading whitespace characters.
RECURSIVE lstrip(_)
lstrip(s) ==
    IF Len(s) = 0 THEN s
    ELSE IF Head(s) \in Whitespace THEN lstrip(Tail(s))
    ELSE s

\* str.strip() == "": the string holds whitespace only (or nothing).
IsBlank(s) == \A i \in 1..Len(s) : s[i] \in Whitespace

\* str.startswith("#")
StartsWithHash(s) == Len(s) > 0 /\ s[1] = "#"

(***************************************************************************)
(* utils/formatters.py                                                     *)
(***************************************************************************)
AnswerHeading == <<"#", "#", "#", " ", "Answer", "\n", "\n">>

\* Mutant: the heading is prepended without looking for an existing one.
ensure_markdown_headings_always(text) ==
    IF Len(text) = 0 THEN text
    ELSE AnswerHeading \o text

\* Mutant: the text is handed back as it came.
ensure_markdown_headings_raw(text) == text

\* Mutant: the heading marker is looked for at the very start of the text.
ensure_markdown_headings_nostrip(text) ==
    IF Len(text) = 0 THEN text
    ELSE IF StartsWithHash(text) THEN text
    ELSE AnswerHeading \o text

ensure_markdown_headings(text) ==
    IF Len(text) = 0 THEN text
    ELSE LET stripped == lstrip(text) IN
         IF StartsWithHash(stripped) THEN text
         ELSE AnswerHeading \o text

(***************************************************************************)
(* Keyword search.  Lower(a) is a.lower() for the atoms that hold an       *)
(* upper-case letter; Substrings(a) is the set of the searched keywords    *)
(* that occur in atom a, case-sensitively.                                 *)
(***************************************************************************)
Lower(a) ==
    CASE a = "Model " -> "model "
      [] a = "Not Found" -> "not found"
      [] a = "Invalid " -> "invalid "
      [] a = "API " -> "api "
      [] a = "Unauthorized 401" -> "unauthorized 401"
      [] a = "OpenRouter API key is required. Please set it in the .env file or environment variables."
           -> "openrouter api key is required. please set it in the .env file or environment variables."
      [] a = "Invalid API key format. OpenRouter API keys should start with 'sk-or-v1-' or 'sk-'. Please check your .env file and get a valid key from https://openrouter.ai/keys"
           -> "invalid api key format. openrouter api keys should start with 'sk-or-v1-' or 'sk-'. please check your .env file and get a valid key from https://openrouter.ai/keys"
      [] a = "Messages list is empty. Cannot generate a response."
           -> "messages list is empty. cannot generate a response."
      [] a = "Could not connect to OpenRouter API. Please check your internet connection."
           -> "could not connect to openrouter api. please check your internet connection."
      [] a = "The request to OpenRouter timed out. Please try again."
           -> "the request to openrouter timed out. please try again."
      [] a = "Unexpected error while calling OpenRouter: "
           -> "unexpected error while calling openrouter: "
      [] a = "Authentication failed. Your OpenRouter API key is invalid or expired. Please check your `.env` file and ensure the key starts with 'sk-or-v1-'. Get a new key at: https://openrouter.ai/keys"
           -> "authentication failed. your openrouter api key is invalid or expired. please check your `.env` file and ensure the key starts with 'sk-or-v1-'. get a new key at: https://openrouter.ai/keys"
      [] a = "Rate limit exceeded. Please wait a moment and try again."
           -> "rate limit exceeded. please wait a moment and try again."
      [] a = "OpenRouter API error (status " -> "openrouter api error (status "
      [] a = "API authentication error. Please check your API key in the .env file."
           -> "api authentication error. please check your api key in the .env file."
      [] a = "Failed to parse response from OpenRouter: "
           -> "failed to parse response from openrouter: "
      [] a = "Received an empty response from OpenRouter."
           -> "received an empty response from openrouter."
      [] a = "Received an empty response from the LLM."
           -> "received an empty response from the llm."
      [] a = "Prompt is empty. Cannot generate a response."
           -> "prompt is empty. cannot generate a response."
      [] a = "Failed to generate response after trying "
           -> "failed to generate response after trying "
      [] a = "Last error: " -> "last error: "
      [] a = "Failed to generate response from OpenRouter."
           -> "failed to generate response from openrouter."
      [] a = "Beginner" -> "beginner"
      [] a = "Advanced" -> "advanced"
      [] a = "Show me a picture of " -> "show me a picture of "
      [] a = ".PNG" -> ".png"
      [] a = "SSL handshake failed" -> "ssl handshake failed"
      [] a = "Expecting value" -> "expecting value"
      [] OTHER -> a

Substrings(a) ==
    CASE a \in {"model ", " model(s). "} -> {"model"}
      [] a = "not found" -> {"not found"}
      [] a = "invalid " -> {"invalid"}
      [] a = "api " -> {"api"}
      [] a = "key" -> {"key"}
      [] a = "401" -> {"401"}
      [] a \in {"unauthorized 401", "Unauthorized 401"} -> {"401", "auth"}
      [] a = "openrouter api key is required. please set it in the .env file or environment variables."
           -> {"api", "key"}
      [] a = "OpenRouter API key is required. Please set it in the .env file or environment variables."
           -> {"key"}
      [] a = "invalid api key format. openrouter api keys should start with 'sk-or-v1-' or 'sk-'. please check your .env file and get a valid key from https://openrouter.ai/keys"
           -> {"invalid", "api", "key"}
      [] a = "Invalid API key format. OpenRouter API keys should start with 'sk-or-v1-' or 'sk-'. Please check your .env file and get a valid key from https://openrouter.ai/keys"
           -> {"key"}
      [] a \in {"could not connect to openrouter api. please check your internet connection.",
                "openrouter api error (status "} -> {"api"}
      [] a = "authentication failed. your openrouter api key is invalid or expired. please check your `.env` file and ensure the key starts with 'sk-or-v1-'. get a new key at: https://openrouter.ai/keys"
           -> {"authentication", "auth", "api", "key", "invalid"}
      [] a = "Authentication failed. Your OpenRouter API key is invalid or expired. Please check your `.env` file and ensure the key starts with 'sk-or-v1-'. Get a new key at: https://openrouter.ai/keys"
           -> {"key", "invalid"}
      [] a = "api authentication error. please check your api key in the .env file."
           -> {"api", "authentication", "auth", "key"}
      [] a = "API authentication error. Please check your API key in the .env file."
           -> {"authentication", "auth", "key"}
      [] OTHER -> {}

\* s.lower()
lower(s) == [i \in 1..Len(s) |-> Lower(s[i])]

\* kw in s
Contains(s, kw) == \E i \in 1..Len(s) : kw \in Substrings(s[i])

\* str(n) for the numbers the messages embed
Str(n) ==
    CASE n = 0 -> "0" [] n = 1 -> "1" [] n = 2 -> "2" [] n = 3 -> "3"
      [] n = 4 -> "4" [] n = 5 -> "5"
      [] n = 200 -> "200" [] n = 400 -> "400" [] n = 401 -> "401"
      [] n = 404 -> "404" [] n = 429 -> "429" [] n = 500 -> "500"

(***************************************************************************)
(* services/openrouter_client.py: openrouter_chat                          *)
(*                                                                         *)
(* An upstream reply is what requests.post gives for one request:          *)
(*   kind    "response", or the exception raised: "ConnectionError",       *)
(*           "Timeout", "Exception" (exc is its text)                      *)
(*   status  the HTTP status code                                          *)
(*   json    whether response.json() parses (exc is the parse error)       *)
(*   error_message, message   data["error"]["message"], data["message"]    *)
(*           (<<>> when absent or empty)                                   *)
(*   text    response.text                                                 *)
(*   has_choices, choices     data["choices"]; a choice is                 *)
(*           [has_content, content] for message.get("content")            *)
(***************************************************************************)
FALLBACK_MODELS ==
    << "xiaomi/mimo-v2-flash:free",
       "mistralai/devstral-2-2512:free",
       "tngtech/deepseek-r1t2-chimera:free" >>

DEFAULT_MODEL == "xiaomi/mimo-v2-flash:free"

valid_prefixes == <<"sk-or-v1-", "sk-or-v1", "sk-">>

\* The prefixes of valid_prefixes that the atom leading a key starts with.
PrefixesOf(a) ==
    CASE a = "sk-or-v1-" -> {"sk-or-v1-", "sk-or-v1", "sk-"}
      [] a = "sk-or-v1" -> {"sk-or-v1", "sk-"}
      [] a = "sk-" -> {"sk-"}
      [] OTHER -> {}

\* str.startswith(prefix)
StartsWith(s, prefix) == Len(s) > 0 /\ prefix \in PrefixesOf(s[1])

RECURSIVE rstrip(_)
rstrip(s) ==
    IF Len(s) = 0 THEN s
    ELSE IF s[Len(s)] \in Whitespace THEN rstrip(SubSeq(s, 1, Len(s) - 1))
    ELSE s

\* str.strip()
strip(s) == rstrip(lstrip(s))

\* LLMError(message, is_model_error)
LLMError(message, is_model_error) ==
    [message |-> message, is_model_error |-> is_model_error]

NoError == LLMError(<<>>, FALSE)

\* What a call gave: a text, or an LLMError raised; http tells whether the
\* HTTP request was issued.
Returned(text, http) == [ok |-> TRUE, text |-> text, error |-> NoError, http |-> http]
Raised(err, http) == [ok |-> FALSE, text |-> <<>>, error |-> err, http |-> http]

\* lines 109-113: the upstream error text of a non-200 response
error_msg_of(response) ==
    IF response.json
    THEN IF response.error_message # <<>> THEN response.error_message
         ELSE IF response.message # <<>> THEN response.message
         ELSE response.text
    ELSE response.text

\* lines 132-135
is_model_error_of(error_lower) ==
    Contains(error_lower, "model")
    /\ (Contains(error_lower, "not found") \/ Contains(error_lower, "invalid"))

\* Mutant: the 401 / 429 branches are gone, every status is classified by
\* its body.
NonOkError_no_status_branch(response) ==
    LET error_msg == error_msg_of(response)
        error_lower == lower(error_msg)
    IN LLMError(<<"OpenRouter API error (status ", Str(response.status), "): ">>
                   \o error_msg,
                is_model_error_of(error_lower))

\* Mutant: the upstream error text is always passed on.
NonOkError_unmasked(response) ==
    LET error_msg == error_msg_of(response) IN
    IF response.status = 401
    THEN LLMError(<<"Authentication failed. Your OpenRouter API key is invalid or expired. Please check your `.env` file and ensure the key starts with 'sk-or-v1-'. Get a new key at: https://openrouter.ai/keys">>, FALSE)
    ELSE IF response.status = 429
    THEN LLMError(<<"Rate limit exceeded. Please wait a moment and try again.">>, FALSE)
    ELSE LLMError(<<"OpenRouter API error (status ", Str(response.status), "): ">>
                     \o error_msg,
                  is_model_error_of(lower(error_msg)))

\* lines 108-145: the LLMError raised for a non-200 response
NonOkError(response) ==
    LET error_msg == error_msg_of(response) IN
    IF response.status = 401
    THEN LLMError(<<"Authentication failed. Your OpenRouter API key is invalid or expired. Please check your `.env` file and ensure the key starts with 'sk-or-v1-'. Get a new key at: https://openrouter.ai/keys">>, FALSE)
    ELSE IF response.status = 429
    THEN LLMError(<<"Rate limit exceeded. Please wait a moment and try again.">>, FALSE)
    ELSE
      LET error_lower == lower(error_msg)
          is_model_error == is_model_error_of(error_lower)
          user_friendly_msg ==
              IF Contains(error_lower, "key") \/ Contains(error_lower, "api")
                 \/ Contains(error_lower, "auth")
              THEN <<"API authentication error. Please check your API key in the .env file.">>
              ELSE error_msg
      IN LLMError(<<"OpenRouter API error (status ", Str(response.status), "): ">>
                     \o user_friendly_msg,
                  is_model_error)

\* Mutant: the last choice is read, not the first.
OkResult_last_choice(response) ==
    IF ~response.json
    THEN Raised(LLMError(<<"Failed to parse response from OpenRouter: ">> \o response.exc, FALSE), TRUE)
    ELSE LET choices == IF response.has_choices THEN response.choices ELSE <<>> IN
         IF Len(choices) = 0
         THEN Raised(LLMError(<<"Received an empty response from OpenRouter.">>, FALSE), TRUE)
         ELSE LET message == choices[Len(choices)]
                  text == IF message.has_content THEN message.content ELSE <<>>
              IN IF Len(text) = 0
                 THEN Raised(LLMError(<<"Received an empty response from the LLM.">>, FALSE), TRUE)
                 ELSE Returned(text, TRUE)

\* lines 147-163: the text of a 200 response
OkResult(response) ==
    IF ~response.json
    THEN Raised(LLMError(<<"Failed to parse response from OpenRouter: ">> \o response.exc, FALSE), TRUE)
    ELSE LET choices == IF response.has_choices THEN response.choices ELSE <<>> IN
         IF Len(choices) = 0
         THEN Raised(LLMError(<<"Received an empty response from OpenRouter.">>, FALSE), TRUE)
         ELSE LET message == choices[1]
                  text == IF message.has_content THEN message.content ELSE <<>>
              IN IF Len(text) = 0
                 THEN Raised(LLMError(<<"Received an empty response from the LLM.">>, FALSE), TRUE)
                 ELSE Returned(text, TRUE)

\* openrouter_chat(messages, api_key, model): `reply` is what the upstream
\* answers if the request is issued.
openrouter_chat(msgs, key, model, reply) ==
    IF Len(key) = 0 \/ IsBlank(key)
    THEN Raised(LLMError(<<"OpenRouter API key is required. Please set it in the .env file or environment variables.">>, FALSE), FALSE)
    ELSE LET api_key_clean == strip(key) IN
    IF ~(\E i \in 1..Len(valid_prefixes) : StartsWith(api_key_clean, valid_prefixes[i]))
    THEN Raised(LLMError(<<"Invalid API key format. OpenRouter API keys should start with 'sk-or-v1-' or 'sk-'. Please check your .env file and get a valid key from https://openrouter.ai/keys">>, FALSE), FALSE)
    ELSE IF Len(msgs) = 0
    THEN Raised(LLMError(<<"Messages list is empty. Cannot generate a response.">>, FALSE), FALSE)
    ELSE IF reply.kind = "ConnectionError"
    THEN Raised(LLMError(<<"Could not connect to OpenRouter API. Please check your internet connection.">>, FALSE), TRUE)
    ELSE IF reply.kind = "Timeout"
    THEN Raised(LLMError(<<"The request to OpenRouter timed out. Please try again.">>, FALSE), TRUE)
    ELSE IF reply.kind = "Exception"
    THEN Raised(LLMError(<<"Unexpected error while calling OpenRouter: ">> \o reply.exc, FALSE), TRUE)
    ELSE IF reply.status # 200
    THEN Raised(NonOkError(reply), TRUE)
    ELSE OkResult(reply)

(***************************************************************************)
(* services/openrouter_client.py: generate_llm_response                    *)
(***************************************************************************)
DefaultSystemMessage ==
    <<"You are StudyBuddy AI, a friendly and patient tutor helping students learn.">>

InSeq(x, s) == \E i \in 1..Len(s) : s[i] = x

\* msg.get("role", "user"), msg.get("content", "")
RoleOf(msg) == IF "role" \in DOMAIN msg THEN msg.role ELSE "user"
ContentOf(msg) == IF "content" \in DOMAIN msg THEN msg.content ELSE <<>>

\* lines 199-205: the history entries that are sent
RECURSIVE HistoryMessages(_)
HistoryMessages(hist) ==
    IF Len(hist) = 0 THEN <<>>
    ELSE LET msg == Head(hist)
             role == RoleOf(msg)
             content == ContentOf(msg)
         IN (IF role \in {"user", "assistant"} /\ Len(content) > 0
             THEN <<[role |-> role, content |-> content]>>
             ELSE <<>>)
            \o HistoryMessages(Tail(hist))

\* Mutant: every history entry is sent, whatever its role and content.
BuildMessages_unfiltered(prompt, hist, system_message) ==
    <<[role |-> "system", content |-> system_message]>>
    \o [i \in 1..Len(hist) |-> [role |-> RoleOf(hist[i]), content |-> ContentOf(hist[i])]]
    \o <<[role |-> "user", content |-> prompt]>>

\* lines 192-208: the message sequence sent to every candidate
BuildMessages(prompt, hist, system_message) ==
    (IF Len(system_message) > 0
     THEN <<[role |-> "system", content |-> system_message]>>
     ELSE <<>>)
    \o HistoryMessages(hist)
    \o <<[role |-> "user", content |-> prompt]>>

\* lines 217-219: the fallbacks appended after a requested model of the list
RECURSIVE ExtendPlan(_, _, _)
ExtendPlan(models_to_try, model, i) ==
    IF i > Len(FALLBACK_MODELS) THEN models_to_try
    ELSE LET fallback == FALLBACK_MODELS[i] IN
         IF fallback # model /\ ~InSeq(fallback, models_to_try)
         THEN ExtendPlan(Append(models_to_try, fallback), model, i + 1)
         ELSE ExtendPlan(models_to_try, model, i + 1)

\* Mutant: the whole fixed list is appended whether or not it holds the
\* requested model.
ModelsToTry_always_extend(model) == <<model>> \o FALLBACK_MODELS

\* lines 210-219: the fallback plan
ModelsToTry(model) ==
    IF ~InSeq(model, FALLBACK_MODELS)
    THEN <<model>> \o FALLBACK_MODELS
    ELSE ExtendPlan(<<model>>, model, 1)

\* lines 243-248: the composite error
CompositeError(models_to_try, last_error) ==
    LLMError(<<"Failed to generate response after trying ",
               Str(Len(models_to_try)), " model(s). ", "Last error: ">>
                \o last_error.message,
             FALSE)

\* What generate_llm_response gave: the text returned or the LLMError
\* raised, the plan it built, and the openrouter_chat invocations it made,
\* in order, each with what came back.
Outcome(ok, text, error, plan, calls) ==
    [ok |-> ok, text |-> text, error |-> error, plan |-> plan, calls |-> calls]

\* Mutant: every failure moves on to the next candidate.
GoesOn_always(exc, model_to_try, models_to_try) == TRUE

\* line 237-241: after a failed candidate, whether the loop goes on to the
\* next one (continue, or falling out of the except block) or breaks
GoesOn(exc, model_to_try, models_to_try) ==
    IF exc.is_model_error /\ model_to_try # models_to_try[Len(models_to_try)]
    THEN TRUE
    ELSE IF ~exc.is_model_error THEN FALSE
    ELSE TRUE

\* Mutant: the raw text is returned.
OnSuccess_raw(raw) == raw

\* line 232
OnSuccess(raw) == ensure_markdown_headings(raw)

\* Mutant: a failed request is repeated once against the same model.
RECURSIVE TryModels_retry_once(_, _, _, _, _, _)
TryModels_retry_once(models_to_try, i, msgs, key, replies, calls) ==
    LET model_to_try == models_to_try[i]
        r == openrouter_chat(msgs, key, model_to_try, replies[i])
        entry == [model |-> model_to_try, messages |-> msgs,
                  reply |-> replies[i], result |-> r]
    IN IF r.ok
       THEN Outcome(TRUE, OnSuccess(r.text), NoError, models_to_try, Append(calls, entry))
       ELSE IF GoesOn(r.error, model_to_try, models_to_try) /\ i < Len(models_to_try)
            THEN TryModels_retry_once(models_to_try, i + 1, msgs, key, replies,
                                      calls \o <<entry, entry>>)
            ELSE Outcome(FALSE, <<>>, CompositeError(models_to_try, r.error),
                         models_to_try, calls \o <<entry, entry>>)

\* lines 221-249: the loop over the plan from candidate i on; replies[i] is
\* the upstream's answer to the i-th candidate's request.
RECURSIVE TryModels(_, _, _, _, _, _)
TryModels(models_to_try, i, msgs, key, replies, calls) ==
    LET model_to_try == models_to_try[i]
        r == openrouter_chat(msgs, key, model_to_try, replies[i])
        called == Append(calls, [model |-> model_to_try, messages |-> msgs,
                                 reply |-> replies[i], result |-> r])
    IN IF r.ok
       THEN Outcome(TRUE, OnSuccess(r.text), NoError, models_to_try, called)
       ELSE IF GoesOn(r.error, model_to_try, models_to_try) /\ i < Len(models_to_try)
            THEN TryModels(models_to_try, i + 1, msgs, key, replies, called)
            ELSE Outcome(FALSE, <<>>, CompositeError(models_to_try, r.error),
                         models_to_try, called)

\* Mutant: the prompt is not looked at before the candidates are called.
generate_llm_response_any_prompt(prompt, key, model, hist, replies) ==
    TryModels(ModelsToTry(model), 1,
              BuildMessages(prompt, hist, DefaultSystemMessage),
              key, replies, <<>>)

\* generate_llm_response(prompt, api_key, model, chat_history)
generate_llm_response(prompt, key, model, hist, replies) ==
    IF Len(prompt) = 0 \/ IsBlank(prompt)
    THEN Outcome(FALSE, <<>>,
                 LLMError(<<"Prompt is empty. Cannot generate a response.">>, FALSE),
                 <<>>, <<>>)
    ELSE TryModels(ModelsToTry(model), 1,
                   BuildMessages(prompt, hist, DefaultSystemMessage),
                   key, replies, <<>>)

(***************************************************************************)
(* The upstream replies and the inputs the specifications draw from.       *)
(***************************************************************************)
HttpError(status, json, error_message, message, text) ==
    [kind |-> "response", status |-> status, json |-> json,
     error_message |-> error_message, message |-> message, text |-> text,
     has_choices |-> FALSE, choices |-> <<>>, exc |-> <<>>]

HttpOk(json, has_choices, choices, exc) ==
    [kind |-> "response", status |-> 200, json |-> json,
     error_message |-> <<>>, message |-> <<>>, text |-> <<>>,
     has_choices |-> has_choices, choices |-> choices, exc |-> exc]

NetFailure(kind, exc) ==
    [kind |-> kind, status |-> 0, json |-> FALSE,
     error_message |-> <<>>, message |-> <<>>, text |-> <<>>,
     has_choices |-> FALSE, choices |-> <<>>, exc |-> exc]

Choice(content) == [has_content |-> TRUE, content |-> content]
NoContentChoice == [has_content |-> FALSE, content |-> <<>>]

\* Upstream error texts, each with what it says (written down by hand, the
\* classification is checked against it).
ErrorTexts ==
    { [t |-> <<"Model ", "gpt-x ", "Not Found">>, model |-> TRUE, missing |-> TRUE],
      [t |-> <<"Invalid ", "model ", "id">>,      model |-> TRUE, missing |-> TRUE],
      [t |-> <<"model ", "overloaded">>,          model |-> TRUE, missing |-> FALSE],
      [t |-> <<"route ", "not found">>,           model |-> FALSE, missing |-> TRUE],
      [t |-> <<"Invalid ", "API ", "key">>,       model |-> FALSE, missing |-> TRUE],
      [t |-> <<"internal server error">>,         model |-> FALSE, missing |-> FALSE] }

ModelNotFoundText == <<"model ", "gpt-x ", "not found">>
PlainText == <<"Plants make food">>
HeadedText == <<" ", "#", " ", "Photosynthesis", "\n", "Plants make food">>

ErrorStatuses == {400, 401, 404, 429, 500}

\* The non-200 replies: the error text e.t in each place the code reads it
\* from, with a decoy in the places it must not read.
ErrorReplies ==
    { [reply |-> HttpError(st, TRUE, e.t, ModelNotFoundText, ModelNotFoundText), says |-> e]
        : st \in ErrorStatuses, e \in ErrorTexts }
    \cup { [reply |-> HttpError(st, TRUE, <<>>, e.t, ModelNotFoundText), says |-> e]
        : st \in ErrorStatuses, e \in ErrorTexts }
    \cup { [reply |-> HttpError(st, TRUE, <<>>, <<>>, e.t), says |-> e]
        : st \in ErrorStatuses, e \in ErrorTexts }
    \cup { [reply |-> HttpError(st, FALSE, ModelNotFoundText, ModelNotFoundText, e.t), says |-> e]
        : st \in ErrorStatuses, e \in ErrorTexts }

Nothing == [t |-> <<>>, model |-> FALSE, missing |-> FALSE]

OkReplies ==
    { [reply |-> HttpOk(TRUE, TRUE, <<Choice(c)>>, <<>>), says |-> Nothing]
        : c \in {PlainText, HeadedText, <<" ">>, <<>>} }
    \cup { [reply |-> HttpOk(TRUE, TRUE, <<Choice(PlainText), Choice(HeadedText)>>, <<>>), says |-> Nothing],
           [reply |-> HttpOk(TRUE, TRUE, <<NoContentChoice, Choice(PlainText)>>, <<>>), says |-> Nothing],
           [reply |-> HttpOk(TRUE, TRUE, <<>>, <<>>), says |-> Nothing],
           [reply |-> HttpOk(TRUE, FALSE, <<>>, <<>>), says |-> Nothing] }
    \cup { [reply |-> HttpOk(FALSE, FALSE, <<>>, x), says |-> Nothing]
        : x \in {<<"Expecting value">>, ModelNotFoundText} }

FailedReplies ==
    { [reply |-> NetFailure(k, x), says |-> Nothing]
        : k \in {"ConnectionError", "Timeout", "Exception"},
          x \in {<<"SSL handshake failed">>, ModelNotFoundText} }

Replies == ErrorReplies \cup OkReplies \cup FailedReplies

ApiKeys ==
    { <<"sk-or-v1-", "0123abcd">>, <<"sk-", "proj">>, <<" ", "sk-or-v1", "0123abcd", "\n">>,
      <<"pk-", "0123abcd">>, <<"0123abcd">>, <<>>, <<" ", " ">> }

OneUserMessage == <<[role |-> "user", content |-> <<"Explain photosynthesis">>]>>

(***************************************************************************)
(* utils/validators.py                                                     *)
(***************************************************************************)
MaxInputLen == 8000

\* len() of an atom: the atoms user texts are made of; every other atom
\* used in a user text is a single character.
CharLen(a) ==
    CASE a = "Explain photosynthesis" -> 22
      [] a = "show me an image of " -> 20
      [] a = "Show me a picture of " -> 21
      [] a = "Isaac Newton" -> 12
      [] a = "a cell" -> 6
      [] a = "Mitochondria make ATP." -> 22
      [] a = "x * 8000" -> 8000
      [] a = "x * 7999" -> 7999
      [] a = " * 8000" -> 8000
      [] OTHER -> 1

\* len(text)
RECURSIVE len(_)
len(s) == IF Len(s) = 0 THEN 0 ELSE CharLen(Head(s)) + len(Tail(s))

\* A Python value handed to a validator: None, a str, or something else.
PyNone == [type |-> "None", val |-> <<>>]
PyStr(t) == [type |-> "str", val |-> t]

Validation(is_valid, error_msg) == [is_valid |-> is_valid, error_msg |-> error_msg]

\* Mutant: the length limit is not enforced.
validate_text_input_no_limit(text, field_name) ==
    IF text.type = "None" THEN Validation(FALSE, <<"Please provide ", field_name, ".">>)
    ELSE IF text.type # "str" THEN Validation(FALSE, <<"The ", field_name, " must be text.">>)
    ELSE IF IsBlank(text.val) THEN Validation(FALSE, <<"Please enter some ", field_name, ".">>)
    ELSE Validation(TRUE, <<>>)

\* Mutant: the limit is one character lower.
validate_text_input_off_by_one(text, field_name) ==
    IF text.type = "None" THEN Validation(FALSE, <<"Please provide ", field_name, ".">>)
    ELSE IF text.type # "str" THEN Validation(FALSE, <<"The ", field_name, " must be text.">>)
    ELSE IF IsBlank(text.val) THEN Validation(FALSE, <<"Please enter some ", field_name, ".">>)
    ELSE IF len(text.val) >= MaxInputLen
    THEN Validation(FALSE, <<"The ", field_name, " is too long. Please shorten it a bit.">>)
    ELSE Validation(TRUE, <<>>)

validate_text_input(text, field_name) ==
    IF text.type = "None" THEN Validation(FALSE, <<"Please provide ", field_name, ".">>)
    ELSE IF text.type # "str" THEN Validation(FALSE, <<"The ", field_name, " must be text.">>)
    ELSE IF IsBlank(text.val) THEN Validation(FALSE, <<"Please enter some ", field_name, ".">>)
    ELSE IF len(text.val) > MaxInputLen
    THEN Validation(FALSE, <<"The ", field_name, " is too long. Please shorten it a bit.">>)
    ELSE Validation(TRUE, <<>>)

\* An uploaded file: absent (None), or a name and what its bytes are.
NoFile == [present |-> FALSE, name |-> <<>>, data |-> "none"]
File(name, data) == [present |-> TRUE, name |-> name, data |-> data]

allowed_ext == {".jpg", ".jpeg", ".png"}

validate_image_file(file_obj) ==
    IF ~file_obj.present THEN Validation(FALSE, <<"Please upload an image first.">>)
    ELSE LET filename == lower(file_obj.name) IN
         IF ~(Len(filename) > 0 /\ filename[Len(filename)] \in allowed_ext)
         THEN Validation(FALSE, <<"Unsupported file type. Please upload a JPG or PNG image.">>)
         ELSE Validation(TRUE, <<>>)

(***************************************************************************)
(* utils/state.py: the operations on the two session lists, as functions   *)
(* of the list they change.                                                *)
(***************************************************************************)
\* add_message(role, content, images): `if images:` attaches a non-empty
\* list only.
\* Mutant: the new message is put in front of the list.
add_message_in_front(msgs, role, content, images) ==
    <<[role |-> role, content |-> content]>> \o msgs

add_message(msgs, role, content, images) ==
    Append(msgs,
           IF Len(images) > 0
           THEN [role |-> role, content |-> content, images |-> images]
           ELSE [role |-> role, content |-> content])

add_chat_message(hist, user_input, assistant_response) ==
    Append(hist, [user |-> user_input, assistant |-> assistant_response])

\* Mutant: only the message list is emptied.
clear_chat_history_messages_only == [messages |-> <<>>, chat_history |-> chat_history]

\* lines 65-68: both lists are replaced by empty ones
clear_chat_history == [messages |-> <<>>, chat_history |-> <<>>]

(***************************************************************************)
(* utils/image_fetcher.py                                                  *)
(***************************************************************************)
\* The entries of image_keywords that occur in a (lower-cased) atom.
ImageKeywordsIn(a) ==
    CASE a = "show me an image of " -> {"show me an image", "image of"}
      [] a = "show me a picture of " -> {"show me a picture", "picture of"}
      [] OTHER -> {}

detect_image_request(user_text) ==
    IF Len(user_text) = 0 THEN FALSE
    ELSE LET text_lower == lower(user_text) IN
         \E i \in 1..Len(text_lower) : ImageKeywordsIn(text_lower[i]) # {}

\* The atoms after which one of the patterns captures the rest (.+).
IsTrigger(a) == ImageKeywordsIn(Lower(a)) # {}

Politeness == {"please", "pls", "thanks", "thank you"}

\* lines 85-91: the first pattern matches at the trigger; group(1) is what
\* follows it, without a trailing " please" and the like, stripped.
extract_query(user_text) ==
    IF Len(user_text) = 0 THEN <<>>
    ELSE LET text == strip(user_text)
             hits == { i \in 1..Len(text) : IsTrigger(text[i]) /\ i < Len(text) }
         IN IF hits = {} THEN text
            ELSE LET first == CHOOSE i \in hits : \A j \in hits : i <= j
                     rest == strip(SubSeq(text, first + 1, Len(text)))
                     n == Len(rest)
                 IN IF n >= 3 /\ Lower(rest[n]) \in Politeness /\ rest[n - 1] \in Whitespace
                    THEN strip(SubSeq(rest, 1, n - 2))
                    ELSE rest

ImageLimit == 3

Take(s, n) == SubSeq(s, 1, IF Len(s) < n THEN Len(s) ELSE n)

\* fetch_wikipedia_images(query, limit): `found` is what Wikipedia yields
\* for the query, without duplicates, in the order the code collects it.
fetch_wikipedia_images(query, limit, found) ==
    IF Len(query) = 0 THEN <<>> ELSE Take(found, limit)

\* Mutant: everything the lookup found is returned.
fetch_images_unlimited(query, limit, found) ==
    IF Len(query) = 0 \/ Len(found) = 0 THEN [images |-> <<>>, source |-> "none"]
    ELSE [images |-> found, source |-> "wikipedia"]

fetch_images(query, limit, found) ==
    IF Len(query) = 0 THEN [images |-> <<>>, source |-> "none"]
    ELSE LET images == fetch_wikipedia_images(query, limit, found) IN
         IF Len(images) > 0 THEN [images |-> images, source |-> "wikipedia"]
         ELSE [images |-> <<>>, source |-> "none"]

\* str.title() of a source tag
Title(a) == CASE a = "wikipedia" -> "Wikipedia" [] a = "none" -> "None"

(***************************************************************************)
(* prompts/templates.py                                                    *)
(***************************************************************************)
HistoryWindow == 3

\* "\n".join(lines)
RECURSIVE JoinLines(_)
JoinLines(lines) ==
    IF Len(lines) = 0 THEN <<>>
    ELSE IF Len(lines) = 1 THEN lines[1]
    ELSE lines[1] \o <<"\n">> \o JoinLines(Tail(lines))

RECURSIVE HistoryLines(_)
HistoryLines(recent) ==
    IF Len(recent) = 0 THEN <<>>
    ELSE LET msg == Head(recent)
             user == IF "user" \in DOMAIN msg THEN msg.user ELSE <<>>
             assistant == IF "assistant" \in DOMAIN msg THEN msg.assistant ELSE <<>>
         IN (IF Len(user) > 0 THEN << <<"Student: ">> \o user >> ELSE <<>>)
            \o (IF Len(assistant) > 0 THEN << <<"Tutor: ">> \o assistant >> ELSE <<>>)
            \o HistoryLines(Tail(recent))

\* Mutant: the whole history is formatted.
format_chat_history_whole(hist) == JoinLines(HistoryLines(hist))

format_chat_history(hist) ==
    IF Len(hist) = 0 THEN <<>>
    ELSE LET recent == SubSeq(hist,
                              IF Len(hist) > HistoryWindow
                              THEN Len(hist) - HistoryWindow + 1 ELSE 1,
                              Len(hist))
         IN JoinLines(HistoryLines(recent))

KnownTasks == {"Explain", "Examples", "Practice Questions", "Quiz", "Study Plan"}

\* Mutant: every task type gets the "Explain" instruction.
task_instructions_explain_only(task) ==
    "Explain the topic step by step in simple language. Use short sentences, everyday examples, and clear headings."

task_instructions(task) ==
    CASE task = "Explain" ->
           "Explain the topic step by step in simple language. Use short sentences, everyday examples, and clear headings."
      [] task = "Examples" ->
           "Provide several practical examples that illustrate the main ideas. Start with very easy examples, then slightly harder ones."
      [] task = "Practice Questions" ->
           "Create 3-7 practice questions with answers and brief explanations. Include a mix of easy and moderate questions."
      [] task = "Quiz" ->
           "Create a short quiz of 5 questions. Show the correct answers and short explanations at the end."
      [] task = "Study Plan" ->
           "Create a clear, structured study plan with daily or weekly steps, estimated time, and learning goals for each step."

\* student_level and task_type are one-atom strings; "" is the empty atom
\* sequence.
build_text_tutor_prompt(user_input, student_level, task_type, hist) ==
    LET level == strip(IF Len(student_level) = 0 THEN <<"Beginner">> ELSE student_level)
        task == strip(IF Len(task_type) = 0 THEN <<"Explain">> ELSE task_type)
        base_instructions ==
            <<"\n", "You are **StudyBuddy AI**, a friendly and patient tutor helping a ">>
            \o lower(level) \o <<" student.", "\n", "\n", "Student level: ">> \o level
            \o <<"\n", "Requested task type: ">> \o task \o <<"\n">>
        task_text ==
            IF Len(task) = 1 /\ task[1] \in KnownTasks
            THEN task_instructions(task[1]) ELSE task_instructions("Explain")
        history_text == format_chat_history(hist)
        history_block ==
            IF Len(history_text) > 0
            THEN <<"Previous conversation:", "\n">> \o history_text \o <<"\n", "\n">>
            ELSE <<>>
    IN base_instructions \o <<"\n">> \o history_block
       \o <<"Your job:", "\n", task_text, "\n", "\n", "Student's question or topic:", "\n">>
       \o user_input
       \o <<"\n", "\n",
            "Please respond in Markdown with:\n- Clear headings (### ...)\n- Bullet points for lists\n- Step-by-step explanations where helpful\n- A short recap section at the end titled 'Summary'\n">>

build_image_solver_prompt(ocr_text, is_question) ==
    LET mode_text ==
            IF is_question
            THEN "The text below is a question or problem that the student wants you to solve."
            ELSE "The text below contains notes or textbook-style explanations that the student wants you to explain."
        task_text ==
            IF is_question
            THEN "1. Briefly restate what the question is asking.\n2. Solve it step by step, showing your reasoning.\n3. Explain each step in simple, beginner-friendly language.\n4. If there are formulas, name and explain them.\n5. Finish with a short recap of the main idea."
            ELSE "1. Identify the main ideas and key concepts.\n2. Explain each part in simple, clear language.\n3. Use headings and bullet points to organize the explanation.\n4. Add a short recap of the big picture at the end."
    IN <<"You are **StudyBuddy AI**, a friendly tutor.", "\n", "\n", mode_text, "\n", "\n",
         "Here is the text extracted from the student's image:", "\n", "-----", "\n">>
       \o ocr_text
       \o <<"\n", "-----", "\n", "\n", "Your tasks:", "\n", task_text, "\n", "\n",
            "Respond in Markdown with clear headings and bullet points.">>

build_explain_notes_text_prompt(notes_text) ==
    <<"You are **StudyBuddy AI**, a careful tutor.", "\n", "\n",
      "The student has pasted their own notes. Your job is ONLY to explain and clarify\nwhat is already written in the notes. **Do not add any new facts, formulas, or examples**\nthat are not clearly present in the notes, unless the student later asks for more.",
      "\n", "\n", "Here are the student's notes:", "\n", "-----", "\n">>
    \o notes_text
    \o <<"\n", "-----", "\n", "\n",
         "Please:\n- Explain each part in simple, clear language.\n- Clarify any confusing or technical words using only the information present.\n- Organize the explanation with headings and bullet points.\n- End with a short 'Summary of Your Notes' section.\n">>

build_explain_notes_image_prompt(ocr_text) ==
    <<"You are **StudyBuddy AI**, a careful tutor.", "\n", "\n",
      "The student took a photo of their notes or textbook. The text below is the\ncontent we could read from that image. Your job is ONLY to explain and clarify\nwhat is already written there. **Do not add new facts, formulas, or examples**\nthat are not clearly present in the text below.",
      "\n", "\n", "Extracted text from the student's image:", "\n", "-----", "\n">>
    \o ocr_text
    \o <<"\n", "-----", "\n", "\n",
         "Please:\n- Explain the content in simple words.\n- Clarify tricky or technical parts using only this text.\n- Use headings and bullet points.\n- End with a short 'Summary of What Your Notes Say' section.\n">>

(***************************************************************************)
(* utils/ocr.py                                                            *)
(***************************************************************************)
\* extract_text_from_image(image_bytes): `data` tells what the bytes are
\* ("empty", "corrupt", or "image"); `engine` is what Tesseract does with
\* an image that opens: [outcome, text], outcome "text", "not_found"
\* (TesseractNotFoundError) or "error" (any other exception, text its str).
extract_text_from_image(data, engine) ==
    IF data = "empty"
    THEN [raised |-> TRUE, text |-> <<"No image data provided for OCR.">>]
    ELSE IF data = "corrupt"
    THEN [raised |-> TRUE, text |-> <<"Failed to open image: ", "cannot identify image file">>]
    ELSE IF engine.outcome = "not_found"
    THEN [raised |-> TRUE,
          text |-> <<"Tesseract OCR engine was not found on this system.", "\n", "\n",
                     "INSTALLATION STEPS: ...">>]
    ELSE IF engine.outcome = "error"
    THEN [raised |-> TRUE, text |-> <<"OCR failed: ">> \o engine.text]
    ELSE [raised |-> FALSE, text |-> engine.text]

(***************************************************************************)
(* backend/controller.py: the three tab handlers.                          *)
(*                                                                         *)
(* A handler is a function of the session lists, what the UI returned and  *)
(* what the collaborators answer; it gives the new session lists and the   *)
(* record of the invocation:                                               *)
(*   validated  the validator results, in order                            *)
(*   ocr        the extract_text_from_image calls, each with its result    *)
(*   lookups    the fetch_images calls, each with its result               *)
(*   llm        the generate_llm_response calls, each with the history     *)
(*              passed and the Outcome                                     *)
(*   shown      what show_warning / show_error / show_markdown_section     *)
(*              displayed, in order                                        *)
(*   rerun      whether the handler ended in st.rerun()                    *)
(* The leading emoji of the controller's messages is left out.             *)
(***************************************************************************)
AuthHintMessage == <<"Authentication failed. Please check your API key in the .env file.">>
TryAgainMessage == <<"Something went wrong while talking to the AI. Please try again.">>
NoTextWarning ==
    <<"I couldn't detect any readable text in the image. Please try a clearer photo.">>
NoImagesNotice ==
    <<"I couldn't find images for your request. Let me provide a text explanation instead.">>

Warning(text) == [kind |-> "warning", title |-> <<>>, text |-> text]
ErrorBox(text) == [kind |-> "error", title |-> <<>>, text |-> text]
MarkdownSection(title, text) == [kind |-> "markdown", title |-> title, text |-> text]

\* Mutant: the error text itself is displayed.
ModelErrorBox_raw(error_msg) == ErrorBox(error_msg)

\* lines 149-153, 174-178, 225-229, 263-267, 303-307: what a failed model
\* call shows; error_msg is str(exc)
ModelErrorBox(error_msg) ==
    IF Contains(error_msg, "401")
       \/ Contains(lower(error_msg), "authentication")
       \/ Contains(lower(error_msg), "invalid")
    THEN ErrorBox(AuthHintMessage)
    ELSE ErrorBox(TryAgainMessage)

LlmCall(hist, outcome) == [history |-> hist, outcome |-> outcome]

Invocation(flow, input) ==
    [flow |-> flow, input |-> input, validated |-> <<>>, ocr |-> <<>>,
     lookups |-> <<>>, llm |-> <<>>, shown |-> <<>>, rerun |-> FALSE,
     before |-> [messages |-> messages, chat_history |-> chat_history]]

\* Mutant: the image solver and the notes tab store their answer too.
Handled_keeps_answer(msgs, hist, inv) ==
    [messages |->
        IF inv.flow # "text_chat" /\ inv.llm # <<>> /\ inv.llm[1].outcome.ok
        THEN Append(msgs, [role |-> "assistant", content |-> inv.llm[1].outcome.text])
        ELSE msgs,
     chat_history |-> hist, run |-> inv]

Handled(msgs, hist, inv) == [messages |-> msgs, chat_history |-> hist, run |-> inv]

\* `if user_input:` on what st.chat_input returned
Truthy(opt) == ~opt.none /\ Len(opt.val) > 0

\* Mutant: a failed call ends the turn without a word.
StandardPath_silent_failure(inv, m1, ui_data, key, model, replies) ==
    LET prompt == build_text_tutor_prompt(ui_data.user_input.val, ui_data.student_level,
                                          ui_data.task_type, chat_history)
        o == generate_llm_response(prompt, key, model, m1, replies)
        called == [inv EXCEPT !.llm = Append(@, LlmCall(m1, o))]
    IN IF ~o.ok
       THEN Handled(m1, chat_history, called)
       ELSE Handled(add_message(m1, "assistant", o.text, <<>>),
                    add_chat_message(chat_history, ui_data.user_input.val, o.text),
                    [called EXCEPT !.rerun = TRUE])

\* Mutant: a failed call takes the user message back out of the session.
StandardPath_rolls_back(inv, m1, ui_data, key, model, replies) ==
    LET prompt == build_text_tutor_prompt(ui_data.user_input.val, ui_data.student_level,
                                          ui_data.task_type, chat_history)
        o == generate_llm_response(prompt, key, model, m1, replies)
        called == [inv EXCEPT !.llm = Append(@, LlmCall(m1, o))]
    IN IF ~o.ok
       THEN Handled(SubSeq(m1, 1, Len(m1) - 1), chat_history,
                    [called EXCEPT !.shown = Append(@, ModelErrorBox(o.error.message))])
       ELSE Handled(add_message(m1, "assistant", o.text, <<>>),
                    add_chat_message(chat_history, ui_data.user_input.val, o.text),
                    [called EXCEPT !.rerun = TRUE])

\* lines 155-183: the standard tutoring path; m1 is the session list, which
\* chat_history_for_llm names too, after the user message was added
StandardPath(inv, m1, ui_data, key, model, replies) ==
    LET prompt == build_text_tutor_prompt(ui_data.user_input.val, ui_data.student_level,
                                          ui_data.task_type, chat_history)
        o == generate_llm_response(prompt, key, model, m1, replies)
        called == [inv EXCEPT !.llm = Append(@, LlmCall(m1, o))]
    IN IF ~o.ok
       THEN Handled(m1, chat_history,
                    [called EXCEPT !.shown = Append(@, ModelErrorBox(o.error.message))])
       ELSE Handled(add_message(m1, "assistant", o.text, <<>>),
                    add_chat_message(chat_history, ui_data.user_input.val, o.text),
                    [called EXCEPT !.rerun = TRUE])

\* Mutant: a failed call ends the turn here as it does on the other paths.
ImagesPath_fails_turn(inv, m1, query, fetched, key, model, replies) ==
    LET info_prompt ==
            <<"Provide a brief (2-3 sentence) informative response about: ">> \o query
            \o <<". Keep it concise since images will also be shown.">>
        o == generate_llm_response(info_prompt, key, model, m1, replies)
        called == [inv EXCEPT !.llm = Append(@, LlmCall(m1, o))]
    IN IF ~o.ok
       THEN Handled(m1, chat_history,
                    [called EXCEPT !.shown = Append(@, ModelErrorBox(o.error.message))])
       ELSE Handled(add_message(m1, "assistant",
                                o.text \o <<"\n", "\n", "*Images from ", Title(fetched.source), "*">>,
                                fetched.images),
                    chat_history, [called EXCEPT !.rerun = TRUE])

\* Mutant: an answer with images is recorded in the legacy list too.
ImagesPath_records_exchange(inv, m1, query, fetched, key, model, replies) ==
    LET info_prompt ==
            <<"Provide a brief (2-3 sentence) informative response about: ">> \o query
            \o <<". Keep it concise since images will also be shown.">>
        o == generate_llm_response(info_prompt, key, model, m1, replies)
        response_content ==
            (IF o.ok THEN o.text ELSE <<"Here are images related to ">> \o query \o <<".">>)
            \o <<"\n", "\n", "*Images from ", Title(fetched.source), "*">>
    IN Handled(add_message(m1, "assistant", response_content, fetched.images),
               add_chat_message(chat_history, m1[Len(m1)].content, response_content),
               [inv EXCEPT !.llm = Append(@, LlmCall(m1, o)), !.rerun = TRUE])

\* lines 101-122: images were found
ImagesPath(inv, m1, query, fetched, key, model, replies) ==
    LET info_prompt ==
            <<"Provide a brief (2-3 sentence) informative response about: ">> \o query
            \o <<". Keep it concise since images will also be shown.">>
        o == generate_llm_response(info_prompt, key, model, m1, replies)
        text_response ==
            IF o.ok THEN o.text
            ELSE <<"Here are images related to ">> \o query \o <<".">>
        source_note ==
            IF fetched.source # "none"
            THEN <<"\n", "\n", "*Images from ", Title(fetched.source), "*">>
            ELSE <<>>
        response_content == text_response \o source_note
    IN Handled(add_message(m1, "assistant", response_content, fetched.images),
               chat_history,
               [inv EXCEPT !.llm = Append(@, LlmCall(m1, o)), !.rerun = TRUE])

\* Mutant: the notice is not added.
NoImagesPath_no_notice(inv, m1, ui_data, key, model, replies) ==
    StandardPath(inv, m1, ui_data, key, model, replies)

\* lines 123-154: no image was found
NoImagesPath(inv, m1, ui_data, key, model, replies) ==
    LET m2 == add_message(m1, "assistant", NoImagesNotice, <<>>)
        prompt == build_text_tutor_prompt(ui_data.user_input.val, ui_data.student_level,
                                          ui_data.task_type, chat_history)
        o == generate_llm_response(prompt, key, model, m2, replies)
        called == [inv EXCEPT !.llm = Append(@, LlmCall(m2, o))]
    IN IF o.ok
       THEN Handled(add_message(m2, "assistant", o.text, <<>>), chat_history,
                    [called EXCEPT !.rerun = TRUE])
       ELSE Handled(m2, chat_history,
                    [called EXCEPT !.shown = Append(@, ModelErrorBox(o.error.message))])

\* _handle_text_chat_tab(api_key, model)
text_chat_tab(ui_data, key, model, found, replies) ==
    LET inv == Invocation("text_chat", ui_data) IN
    IF ui_data.clear_clicked
    THEN Handled(clear_chat_history.messages, clear_chat_history.chat_history,
                 [inv EXCEPT !.rerun = TRUE])
    ELSE IF ~Truthy(ui_data.user_input)
    THEN Handled(messages, chat_history, inv)
    ELSE
      LET user_input == ui_data.user_input.val
          v == validate_text_input(PyStr(user_input), "question/topic")
          checked == [inv EXCEPT !.validated = Append(@, v)]
      IN IF ~v.is_valid
         THEN Handled(messages, chat_history,
                      [checked EXCEPT !.shown = Append(@, Warning(v.error_msg))])
         ELSE
           LET m1 == add_message(messages, "user", user_input, <<>>) IN
           IF detect_image_request(user_input)
           THEN LET query == extract_query(user_input)
                    fetched == fetch_images(query, ImageLimit, found)
                    looked == [checked EXCEPT
                                 !.lookups = Append(@, [query |-> query, result |-> fetched])]
                IN IF Len(fetched.images) > 0
                   THEN ImagesPath(looked, m1, query, fetched, key, model, replies)
                   ELSE NoImagesPath(looked, m1, ui_data, key, model, replies)
           ELSE StandardPath(checked, m1, ui_data, key, model, replies)

\* Mutant: whatever OCR returned goes to the model.
OcrThenExplain_no_gate(inv, file, engine, section, is_solver, is_question, key, model, replies) ==
    LET ocr == extract_text_from_image(file.data, engine)
        prompt == IF is_solver
                  THEN build_image_solver_prompt(ocr.text, is_question)
                  ELSE build_explain_notes_image_prompt(ocr.text)
        o == generate_llm_response(prompt, key, model, <<>>, replies)
        called == [inv EXCEPT !.ocr = Append(@, ocr), !.llm = Append(@, LlmCall(<<>>, o))]
    IN IF ~o.ok
       THEN Handled(messages, chat_history,
                    [called EXCEPT !.shown = Append(@, ModelErrorBox(o.error.message))])
       ELSE Handled(messages, chat_history,
                    [called EXCEPT !.shown =
                        Append(@, MarkdownSection(<<"Explanation">>, ocr.text \o o.text))])

\* lines 202-233 and 280-311: OCR, the prompt, the model call and the
\* display, shared by the image solver and the image mode of the notes tab
OcrThenExplain(inv, file, engine, section, is_solver, is_question, key, model, replies) ==
    LET ocr == extract_text_from_image(file.data, engine)
        read == [inv EXCEPT !.ocr = Append(@, ocr)]
    IN IF ocr.raised
       THEN Handled(messages, chat_history,
                    [read EXCEPT !.shown =
                        Append(@, ErrorBox(<<"Could not read the image: ">> \o ocr.text))])
       ELSE IF Len(ocr.text) = 0 \/ IsBlank(ocr.text)
       THEN Handled(messages, chat_history,
                    [read EXCEPT !.shown = Append(@, Warning(NoTextWarning))])
       ELSE
         LET prompt == IF is_solver
                       THEN build_image_solver_prompt(ocr.text, is_question)
                       ELSE build_explain_notes_image_prompt(ocr.text)
             o == generate_llm_response(prompt, key, model, <<>>, replies)
             called == [read EXCEPT !.llm = Append(@, LlmCall(<<>>, o))]
         IN IF ~o.ok
            THEN Handled(messages, chat_history,
                         [called EXCEPT !.shown = Append(@, ModelErrorBox(o.error.message))])
            ELSE
              LET combined ==
                      <<"#", "#", "#", " ", section, "\n", "\n">> \o ocr.text
                      \o <<"\n", "\n", "---", "\n", "\n",
                           "#", "#", "#", " ", "AI Explanation", "\n", "\n">>
                      \o o.text
              IN Handled(messages, chat_history,
                         [called EXCEPT !.shown =
                             Append(@, MarkdownSection(<<"Explanation">>, combined))])

\* _handle_image_solver_tab(api_key, model)
image_solver_tab(ui_data, key, model, engine, replies) ==
    LET inv == Invocation("image_solver", ui_data) IN
    IF ~ui_data.solve_clicked
    THEN Handled(messages, chat_history, inv)
    ELSE
      LET v == validate_image_file(ui_data.uploaded_file)
          checked == [inv EXCEPT !.validated = Append(@, v)]
      IN IF ~v.is_valid
         THEN Handled(messages, chat_history,
                      [checked EXCEPT !.shown = Append(@, Warning(v.error_msg))])
         ELSE OcrThenExplain(checked, ui_data.uploaded_file, engine, "Extracted Text",
                             TRUE, ui_data.is_question, key, model, replies)

\* _handle_explain_notes_tab(api_key, model)
explain_notes_tab(ui_data, key, model, engine, replies) ==
    LET inv == Invocation("explain_notes", ui_data) IN
    IF ~ui_data.explain_clicked
    THEN Handled(messages, chat_history, inv)
    ELSE IF ui_data.mode = "text"
    THEN
      LET v == validate_text_input(PyStr(ui_data.notes_text), "notes")
          checked == [inv EXCEPT !.validated = Append(@, v)]
      IN IF ~v.is_valid
         THEN Handled(messages, chat_history,
                      [checked EXCEPT !.shown = Append(@, Warning(v.error_msg))])
         ELSE
           LET prompt == build_explain_notes_text_prompt(ui_data.notes_text)
               o == generate_llm_response(prompt, key, model, <<>>, replies)
               called == [checked EXCEPT !.llm = Append(@, LlmCall(<<>>, o))]
           IN IF ~o.ok
              THEN Handled(messages, chat_history,
                           [called EXCEPT !.shown = Append(@, ModelErrorBox(o.error.message))])
              ELSE Handled(messages, chat_history,
                           [called EXCEPT !.shown =
                               Append(@, MarkdownSection(<<"Explanation">>, o.text))])
    ELSE
      LET v == validate_image_file(ui_data.uploaded_file)
          checked == [inv EXCEPT !.validated = Append(@, v)]
      IN IF ~v.is_valid
         THEN Handled(messages, chat_history,
                      [checked EXCEPT !.shown = Append(@, Warning(v.error_msg))])
         ELSE OcrThenExplain(checked, ui_data.uploaded_file, engine, "Extracted Notes Text",
                             FALSE, FALSE, key, model, replies)

(***************************************************************************)
(* Function-level specifications.  Each draws the inputs of one function   *)
(* in its initial states and applies the function; the session variables   *)
(* stay as constructed.                                                    *)
(***************************************************************************)
NoRun == [flow |-> "none"]

SessionUntouched ==
    /\ messages = <<>> /\ chat_history = <<>> /\ api_key = <<>> /\ run = NoRun

Chars == {"#", " ", "\n", "a"}
Strings == UNION { [1..n -> Chars] : n \in 0..MaxStrLen }

\* --- ensure_markdown_headings, applied once and once more ---------------
InitFormat ==
    /\ SessionUntouched
    /\ \E x \in Strings :
         probe = [fn |-> "ensure_markdown_headings", x |-> x, applied |-> 0,
                  once |-> <<>>, twice |-> <<>>]

ApplyOnce ==
    /\ probe.fn = "ensure_markdown_headings" /\ probe.applied = 0
    /\ probe' = [probe EXCEPT !.applied = 1,
                              !.once = ensure_markdown_headings(probe.x)]
    /\ UNCHANGED <<messages, chat_history, api_key, run>>

ApplyTwice ==
    /\ probe.fn = "ensure_markdown_headings" /\ probe.applied = 1
    /\ probe' = [probe EXCEPT !.applied = 2,
                              !.twice = ensure_markdown_headings(probe.once)]
    /\ UNCHANGED <<messages, chat_history, api_key, run>>

NextFormat == ApplyOnce \/ ApplyTwice

SpecFormat == InitFormat /\ [][NextFormat]_vars

\* --- openrouter_chat, one call ------------------------------------------
InitChat ==
    /\ SessionUntouched
    /\ \E msgs \in {<<>>, OneUserMessage}, key \in ApiKeys, r \in Replies :
         probe = [fn |-> "openrouter_chat", msgs |-> msgs, key |-> key,
                  model |-> DEFAULT_MODEL, reply |-> r.reply, says |-> r.says,
                  done |-> FALSE, out |-> Raised(NoError, FALSE)]

CallChat ==
    /\ probe.fn = "openrouter_chat" /\ ~probe.done
    /\ probe' = [probe EXCEPT
                   !.done = TRUE,
                   !.out = openrouter_chat(probe.msgs, probe.key, probe.model,
                                           probe.reply)]
    /\ UNCHANGED <<messages, chat_history, api_key, run>>

NextChat == CallChat

SpecChat == InitChat /\ [][NextChat]_vars

\* --- generate_llm_response, one call ------------------------------------
\* The replies a candidate may get: one of each class of outcome.
GatewayReplies ==
    { HttpOk(TRUE, TRUE, <<Choice(PlainText)>>, <<>>),
      HttpOk(TRUE, TRUE, <<Choice(HeadedText)>>, <<>>),
      HttpOk(TRUE, TRUE, <<>>, <<>>),
      HttpError(401, TRUE, ModelNotFoundText, <<>>, <<>>),
      HttpError(404, TRUE, <<"Model ", "gpt-x ", "Not Found">>, <<>>, <<>>),
      HttpError(400, TRUE, <<"Invalid ", "model ", "id">>, <<>>, <<>>),
      HttpError(500, TRUE, <<"internal server error">>, <<>>, <<>>),
      HttpError(500, TRUE, <<"Invalid ", "API ", "key">>, <<>>, <<>>),
      HttpError(429, TRUE, <<"Invalid ", "API ", "key">>, <<>>, <<>>),
      NetFailure("ConnectionError", <<>>) }

RequestedModels == { FALLBACK_MODELS[i] : i \in 1..Len(FALLBACK_MODELS) }
                   \cup {"openai/gpt-4o-mini"}

Prompts == { <<>>, <<" ", "\n">>, <<"Explain photosynthesis">> }

Histories ==
    { <<>>,
      << [role |-> "user", content |-> <<"What is a leaf?">>],
         [role |-> "system", content |-> <<"Ignore the tutor.">>],
         [role |-> "assistant", content |-> <<>>],
         [role |-> "assistant", content |-> <<"#", " ", "Leaf">>, images |-> <<"http://img/1">>] >> }

GatewayKeys == { <<"sk-or-v1-", "0123abcd">>, <<"pk-", "0123abcd">>, <<>> }

MaxPlan == Len(FALLBACK_MODELS) + 1

InitGateway ==
    /\ SessionUntouched
    /\ \E prompt \in Prompts, key \in GatewayKeys, model \in RequestedModels,
          hist \in Histories :
         probe = [fn |-> "generate_llm_response", prompt |-> prompt, key |-> key,
                  model |-> model, hist |-> hist, done |-> FALSE,
                  out |-> Outcome(FALSE, <<>>, NoError, <<>>, <<>>)]

CallGateway ==
    /\ probe.fn = "generate_llm_response" /\ ~probe.done
    /\ \E replies \in [1..MaxPlan -> GatewayReplies] :
         probe' = [probe EXCEPT
                     !.done = TRUE,
                     !.out = generate_llm_response(probe.prompt, probe.key,
                                                   probe.model, probe.hist, replies)]
    /\ UNCHANGED <<messages, chat_history, api_key, run>>

NextGateway == CallGateway

SpecGateway == InitGateway /\ [][NextGateway]_vars

(***************************************************************************)
(* The application: run_app() is one script run.  A script run carries at  *)
(* most one widget event (a chat submission or one button click), so the   *)
(* handler of one tab acts and the other two return at once; each action   *)
(* below is the script run for an event in its tab.  `run` holds the       *)
(* record of the script run until the run ends.                            *)
(***************************************************************************)
SessionKeys == { <<"sk-or-v1-", "0123abcd">>, <<"pk-", "0123abcd">>, <<>> }

\* line 414: the model every handler is given
AppModel == "xiaomi/mimo-v2-flash:free"

\* Mutant: any key that is present lets run_app reach the tabs.
KeyAccepted_any_present(key) == Len(key) > 0

\* lines 398-411 and 417-428: run_app reaches the tabs
KeyAccepted(key) ==
    /\ Len(key) > 0
    /\ \E i \in 1..Len(valid_prefixes) : StartsWith(strip(key), valid_prefixes[i])

InvalidKeyFormatMessage == <<"Invalid API Key Format">>
KeyRequiredMessage == <<"OpenRouter API Key Required">>

\* What the upstream answers to the calls of one gateway invocation.
FlowReplies ==
    { HttpOk(TRUE, TRUE, <<Choice(PlainText)>>, <<>>),
      HttpOk(TRUE, TRUE, <<Choice(HeadedText)>>, <<>>),
      HttpError(401, TRUE, <<"Unauthorized">>, <<>>, <<>>),
      HttpError(404, TRUE, ModelNotFoundText, <<>>, <<>>),
      HttpError(500, TRUE, <<"internal server error">>, <<>>, <<>>) }

\* More answers, for the flows that leave the session lists alone: a text
\* of whitespace only, and no text at all.
MoreReplies ==
    FlowReplies \cup { HttpOk(TRUE, TRUE, <<Choice(<<" ", "\n">>)>>, <<>>),
                       HttpOk(TRUE, TRUE, <<Choice(<<>>)>>, <<>>) }

\* The answers to the successive calls: the upstream keeps giving the
\* answer it gave once a model was found, and only "model not found" is
\* followed by a different answer.
ScriptsOver(answers) ==
    { r \in [1..MaxPlan -> answers] :
        \A i \in 1..(MaxPlan - 1) :
          r[i] # HttpError(404, TRUE, ModelNotFoundText, <<>>, <<>>) => r[i + 1] = r[i] }

ReplyScripts == ScriptsOver(FlowReplies)
MoreReplyScripts == ScriptsOver(MoreReplies)
NoReplies == [i \in 1..MaxPlan |-> NetFailure("ConnectionError", <<>>)]

\* What Wikipedia yields for a query.
WikipediaResults ==
    { <<>>, <<"http://img/1", "http://img/2", "http://img/3", "http://img/4">> }

Option(none, val) == [none |-> none, val |-> val]

ChatInputs ==
    { Option(TRUE, <<>>), Option(FALSE, <<>>),
      Option(FALSE, <<"Explain photosynthesis">>),
      Option(FALSE, <<"show me an image of ", "Isaac Newton">>),
      Option(FALSE, <<" ", "\n">>),
      Option(FALSE, <<"x * 8000", "x">>) }

ChatSettings ==
    { [student_level |-> <<"Beginner">>, task_type |-> <<"Explain">>],
      [student_level |-> <<"Advanced">>, task_type |-> <<"Quiz">>] }

\* What render_text_chat_tab returns.
TextChatEvents ==
    { [clear_clicked |-> c, user_input |-> u,
       student_level |-> k.student_level, task_type |-> k.task_type]
        : c \in BOOLEAN, u \in ChatInputs, k \in ChatSettings }

UploadedFiles ==
    { NoFile, File(<<"homework", ".PNG">>, "image"), File(<<"notes", ".pdf">>, "image"),
      File(<<"scan", ".jpg">>, "corrupt"), File(<<"blank", ".jpeg">>, "empty") }

OcrEngines ==
    { [outcome |-> "text", text |-> <<"2x + 3 = 7">>],
      [outcome |-> "text", text |-> <<" ", "\n">>],
      [outcome |-> "text", text |-> <<>>],
      [outcome |-> "error", text |-> <<"invalid image mode">>],
      [outcome |-> "not_found", text |-> <<>>] }
NoEngine == [outcome |-> "not_found", text |-> <<>>]

\* What render_image_solver_tab returns.
SolverEvents ==
    { [solve_clicked |-> c, uploaded_file |-> f, is_question |-> q]
        : c \in BOOLEAN, f \in UploadedFiles, q \in BOOLEAN }

NotesTexts == { <<>>, <<"Mitochondria make ATP.">>, <<"x * 8000", "x">> }

\* What render_explain_notes_tab returns.
NotesEvents ==
    { [explain_clicked |-> c, mode |-> "text", notes_text |-> t, uploaded_file |-> NoFile]
        : c \in BOOLEAN, t \in NotesTexts }
    \cup { [explain_clicked |-> c, mode |-> "image", notes_text |-> <<>>, uploaded_file |-> f]
        : c \in BOOLEAN, f \in UploadedFiles }

\* The collaborators are asked only where the handler gets to them: the
\* choice of their answers is made there and nowhere else.
Submits(ui_data) ==
    /\ ~ui_data.clear_clicked
    /\ Truthy(ui_data.user_input)
    /\ validate_text_input(PyStr(ui_data.user_input.val), "question/topic").is_valid
LooksUp(ui_data) == Submits(ui_data) /\ detect_image_request(ui_data.user_input.val)
Scans(clicked, file) ==
    clicked /\ validate_image_file(file).is_valid /\ file.data = "image"
ReadsText(engine) == engine.outcome = "text" /\ ~IsBlank(engine.text)

UserTurns(msgs) == Cardinality({ i \in 1..Len(msgs) : msgs[i].role = "user" })

Init ==
    /\ messages = <<>>
    /\ chat_history = <<>>
    /\ api_key \in SessionKeys
    /\ run = NoRun
    /\ probe = [fn |-> "none"]

Idle == run = NoRun /\ probe.fn = "none"

Finish(h) ==
    /\ messages' = h.messages
    /\ chat_history' = h.chat_history
    /\ run' = h.run
    /\ UNCHANGED <<api_key, probe>>

\* run_app with a Text Chat Tutor event
handle_text_chat_tab ==
    /\ Idle /\ KeyAccepted(api_key)
    /\ \E ui_data \in TextChatEvents :
         /\ Submits(ui_data) => UserTurns(messages) < MaxTurns
         /\ \E found \in (IF LooksUp(ui_data) THEN WikipediaResults ELSE {<<>>}),
               replies \in (IF Submits(ui_data) THEN ReplyScripts ELSE {NoReplies}) :
              Finish(text_chat_tab(ui_data, strip(api_key), AppModel, found, replies))

\* run_app with an Image Doubt Solver event
handle_image_solver_tab ==
    /\ Idle /\ KeyAccepted(api_key)
    /\ \E ui_data \in SolverEvents :
         \E engine \in (IF Scans(ui_data.solve_clicked, ui_data.uploaded_file)
                        THEN OcrEngines ELSE {NoEngine}) :
           \E replies \in (IF Scans(ui_data.solve_clicked, ui_data.uploaded_file)
                              /\ ReadsText(engine)
                           THEN MoreReplyScripts ELSE {NoReplies}) :
             Finish(image_solver_tab(ui_data, strip(api_key), AppModel, engine, replies))

\* run_app with an Explain My Notes event
handle_explain_notes_tab ==
    /\ Idle /\ KeyAccepted(api_key)
    /\ \E ui_data \in NotesEvents :
         LET scans == ui_data.mode = "image"
                      /\ Scans(ui_data.explain_clicked, ui_data.uploaded_file)
             asks == ui_data.mode = "text" /\ ui_data.explain_clicked
                     /\ validate_text_input(PyStr(ui_data.notes_text), "notes").is_valid
         IN \E engine \in (IF scans THEN OcrEngines ELSE {NoEngine}) :
              \E replies \in (IF asks \/ (scans /\ ReadsText(engine))
                              THEN MoreReplyScripts ELSE {NoReplies}) :
                Finish(explain_notes_tab(ui_data, strip(api_key), AppModel, engine, replies))

\* run_app lines 394-411 and 417-428: the key is missing or malformed,
\* st.stop() ends the script run before the tabs
run_app_stops ==
    /\ Idle /\ ~KeyAccepted(api_key)
    /\ run' = [Invocation("stopped", api_key) EXCEPT
                 !.shown = <<IF Len(api_key) > 0 THEN ErrorBox(InvalidKeyFormatMessage)
                             ELSE Warning(KeyRequiredMessage)>>]
    /\ UNCHANGED <<messages, chat_history, api_key, probe>>

\* the script run is over; the session lists stay for the next one
script_run_ends ==
    /\ run # NoRun /\ probe.fn = "none"
    /\ run' = NoRun
    /\ UNCHANGED <<messages, chat_history, api_key, probe>>

Next ==
    \/ handle_text_chat_tab
    \/ handle_image_solver_tab
    \/ handle_explain_notes_tab
    \/ run_app_stops
    \/ script_run_ends

Spec == Init /\ [][Next]_vars

\* --- validate_text_input, one call --------------------------------------
TextAtoms == {"x * 7999", "x", " ", " * 8000"}
ValidatedValues ==
    {PyNone, [type |-> "int", val |-> <<>>]}
    \cup { PyStr(t) : t \in UNION { [1..n -> TextAtoms] : n \in 0..MaxStrLen } }
FieldNames == {"question/topic", "notes"}

InitValidate ==
    /\ SessionUntouched
    /\ \E text \in ValidatedValues, field_name \in FieldNames :
         probe = [fn |-> "validate_text_input", text |-> text, field_name |-> field_name,
                  done |-> FALSE, out |-> Validation(FALSE, <<>>)]

CallValidate ==
    /\ probe.fn = "validate_text_input" /\ ~probe.done
    /\ probe' = [probe EXCEPT !.done = TRUE,
                              !.out = validate_text_input(probe.text, probe.field_name)]
    /\ UNCHANGED <<messages, chat_history, api_key, run>>

NextValidate == CallValidate

SpecValidate == InitValidate /\ [][NextValidate]_vars

\* --- build_text_tutor_prompt, one call ----------------------------------
\* A task type or a level as the caller gives it: None or a str.
TaskTypes ==
    {PyNone, PyStr(<<>>), PyStr(<<" ">>), PyStr(<<"quiz">>), PyStr(<<"Homework">>),
     PyStr(<<" ", "Quiz", "\n">>)}
    \cup { PyStr(<<t>>) : t \in KnownTasks }
Levels == {PyNone, PyStr(<<"Advanced">>)}

\* The legacy list after n standard turns.
Exchange(i) == [user |-> <<"question ", Str(i)>>, assistant |-> <<"answer ", Str(i)>>]
LegacyLists == { [i \in 1..n |-> Exchange(i)] : n \in 0..MaxHistory }

\* `x or default`: None and "" are both falsy
Falsy(x) == IF x.type = "None" THEN <<>> ELSE x.val

InitPrompt ==
    /\ SessionUntouched
    /\ \E task_type \in TaskTypes, student_level \in Levels, hist \in LegacyLists :
         probe = [fn |-> "build_text_tutor_prompt",
                  user_input |-> <<"Explain photosynthesis">>,
                  student_level |-> student_level, task_type |-> task_type,
                  hist |-> hist, done |-> FALSE, out |-> <<>>]

CallPrompt ==
    /\ probe.fn = "build_text_tutor_prompt" /\ ~probe.done
    /\ probe' = [probe EXCEPT
                   !.done = TRUE,
                   !.out = build_text_tutor_prompt(probe.user_input,
                                                   Falsy(probe.student_level),
                                                   Falsy(probe.task_type), probe.hist)]
    /\ UNCHANGED <<messages, chat_history, api_key, run>>

NextPrompt == CallPrompt

SpecPrompt == InitPrompt /\ [][NextPrompt]_vars

\* --- either function, one call ------------------------------------------
InitClient == InitChat \/ InitGateway

NextClient == CallChat \/ CallGateway

SpecClient == InitClient /\ [][NextClient]_vars

(***************************************************************************)
(* Claims about the gateway and the normalizer.                            *)
(***************************************************************************)
GatewayDone == probe.fn = "generate_llm_response" /\ probe.done

\* A call of the log that failed, and how.
FailedFatally(c) == ~c.result.ok /\ ~c.result.error.is_model_error
FailedModelUnavailable(c) == ~c.result.ok /\ c.result.error.is_model_error

\* C1: in generate_llm_response, a candidate whose call fails with an error
\* that is not classified model-unavailable is the last candidate called,
\* whatever its position in the plan, and the call as a whole fails.
C1_FatalFailureStopsThePlan ==
    GatewayDone =>
        LET calls == probe.out.calls IN
        \A i \in 1..Len(calls) :
            FailedFatally(calls[i]) => (i = Len(calls) /\ ~probe.out.ok)

\* C1 witness: the second candidate of a longer plan got HTTP 500 after the
\* first was model-unavailable, and the third was never called.
C1_Witness ==
    /\ GatewayDone
    /\ Len(probe.out.plan) >= 3
    /\ Len(probe.out.calls) = 2
    /\ FailedModelUnavailable(probe.out.calls[1])
    /\ FailedFatally(probe.out.calls[2])
    /\ probe.out.calls[2].result.http

\* C2: candidates are called in plan order, one call per plan entry; when
\* candidates 1..k-1 failed model-unavailable and candidate k succeeded, the
\* text returned is ensure_markdown_headings of candidate k's text and no
\* candidate after k was called.
C2_FallbackReturnsFirstSuccess ==
    GatewayDone =>
        LET calls == probe.out.calls
            plan == probe.out.plan
        IN /\ Len(calls) <= Len(plan)
           /\ \A i \in 1..Len(calls) : calls[i].model = plan[i]
           /\ \A k \in 1..Len(calls) :
                (calls[k].result.ok
                 /\ \A j \in 1..(k - 1) : FailedModelUnavailable(calls[j]))
                => /\ probe.out.ok
                   /\ probe.out.text = ensure_markdown_headings(calls[k].result.text)
                   /\ Len(calls) = k

\* C2 witness: candidate 1 model-unavailable, candidate 2 answered with a
\* text without heading, which came back under "### Answer".
C2_Witness ==
    /\ GatewayDone
    /\ Len(probe.out.calls) = 2
    /\ FailedModelUnavailable(probe.out.calls[1])
    /\ probe.out.calls[2].result.ok
    /\ probe.out.calls[2].result.text = PlainText
    /\ probe.out.text = AnswerHeading \o PlainText

IsComposite(err) ==
    Len(err.message) >= 4 /\ err.message[1] = "Failed to generate response after trying "

\* C4 (as claimed): the composite error names as many models as
\* openrouter_chat was invoked for, and ends with the last underlying
\* error's text.
C4_CompositeNamesModelsTried ==
    (GatewayDone /\ ~probe.out.ok /\ IsComposite(probe.out.error)) =>
        LET calls == probe.out.calls
            msg == probe.out.error.message
        IN /\ msg[2] = Str(Len(calls))
           /\ SubSeq(msg, 5, Len(msg)) = calls[Len(calls)].result.error.message

PositionIn(x, s) == CHOOSE i \in 1..Len(s) : s[i] = x

\* C5: the plan built for a requested model M starts with M, holds M and
\* every model of the fixed list exactly once, and lists the models after M
\* in the fixed list's order.
C5_PlanShape ==
    (GatewayDone /\ Len(probe.out.plan) > 0) =>
        LET plan == probe.out.plan
            M == probe.model
        IN /\ plan[1] = M
           /\ \A i, j \in 1..Len(plan) : i # j => plan[i] # plan[j]
           /\ { plan[i] : i \in 1..Len(plan) }
                = {M} \cup { FALLBACK_MODELS[i] : i \in 1..Len(FALLBACK_MODELS) }
           /\ \A i, j \in 2..Len(plan) :
                i < j => PositionIn(plan[i], FALLBACK_MODELS)
                            < PositionIn(plan[j], FALLBACK_MODELS)

\* C5 witness: the requested model is the second of the fixed list; the
\* plan puts it first and keeps the first and the third in order.
C5_Witness ==
    /\ GatewayDone
    /\ probe.model = FALLBACK_MODELS[2]
    /\ probe.out.plan = <<FALLBACK_MODELS[2], FALLBACK_MODELS[1], FALLBACK_MODELS[3]>>

ChatDone == probe.fn = "openrouter_chat" /\ probe.done

\* C6: a failed openrouter_chat call is retryable across models
\* (is_model_error) exactly when a request was made, the status is neither
\* 200 nor 401 nor 429, and the upstream error text names a model and says
\* "not found" or "invalid"; a non-200 response always fails.
C6_Classification ==
    ChatDone =>
        /\ (probe.out.http /\ probe.reply.kind = "response" /\ probe.reply.status # 200)
              => ~probe.out.ok
        /\ ~probe.out.ok =>
             (probe.out.error.is_model_error
                <=> /\ probe.out.http
                    /\ probe.reply.kind = "response"
                    /\ probe.reply.status \notin {200, 401, 429}
                    /\ probe.says.model /\ probe.says.missing)

\* C6 witness: a 401 whose body says a model was not found is not retryable.
C6_Witness ==
    /\ ChatDone
    /\ probe.out.http
    /\ probe.reply.status = 401
    /\ probe.says.model /\ probe.says.missing
    /\ ~probe.out.ok /\ ~probe.out.error.is_model_error

\* C10: ensure_markdown_headings applied twice gives what it gives applied
\* once.
C10_Idempotent ==
    (probe.fn = "ensure_markdown_headings" /\ probe.applied = 2)
        => probe.twice = probe.once

\* C10 witness: a text with leading whitespace and no heading got the
\* heading on the first application and was left alone by the second.
C10_Witness ==
    /\ probe.fn = "ensure_markdown_headings" /\ probe.applied = 2
    /\ Len(probe.x) > 0 /\ probe.x[1] \in Whitespace
    /\ probe.once = AnswerHeading \o probe.x

(***************************************************************************)
(* Claims about the handlers.                                              *)
(***************************************************************************)
Ran(flow) == run # NoRun /\ run.flow = flow

\* A Text Chat Tutor turn: the input passed validation.
ChatTurn ==
    /\ Ran("text_chat")
    /\ Len(run.validated) = 1 /\ run.validated[1].is_valid

\* The turn came to its end at line 185.
SuccessfulTurn == ChatTurn /\ run.rerun

StandardTurn == ChatTurn /\ Len(run.lookups) = 0
ImagesTurn == ChatTurn /\ Len(run.lookups) = 1 /\ Len(run.lookups[1].result.images) > 0
NoImagesTurn == ChatTurn /\ Len(run.lookups) = 1 /\ Len(run.lookups[1].result.images) = 0

\* What the handler added to the session message list.
KeptBefore ==
    /\ Len(messages) >= Len(run.before.messages)
    /\ SubSeq(messages, 1, Len(run.before.messages)) = run.before.messages
Added == SubSeq(messages, Len(run.before.messages) + 1, Len(messages))
RolesOf(msgs) == [i \in 1..Len(msgs) |-> msgs[i].role]

\* C3 as stated: every successful Text Chat Tutor turn, on each of the
\* three paths, adds exactly one user message followed by exactly one
\* assistant message to the session message list, and nothing else.
C3_OneUserOneAssistant ==
    SuccessfulTurn => KeptBefore /\ RolesOf(Added) = <<"user", "assistant">>

\* C3: a successful turn on the standard path and on the path with images
\* found adds exactly one user message followed by exactly one assistant
\* message; a successful turn on the path that finds no images adds one user
\* message followed by two assistant messages, the fixed notice and then the
\* tutoring response; nothing else is added.
C3_TurnAppends ==
    SuccessfulTurn =>
        /\ KeptBefore
        /\ Added[1] = [role |-> "user", content |-> run.input.user_input.val]
        /\ (StandardTurn \/ ImagesTurn) => RolesOf(Added) = <<"user", "assistant">>
        /\ NoImagesTurn =>
             /\ RolesOf(Added) = <<"user", "assistant", "assistant">>
             /\ Added[2].content =
                  <<"I couldn't find images for your request. Let me provide a text explanation instead.">>
             /\ Added[3].content = run.llm[1].outcome.text

C3_Witness ==
    /\ SuccessfulTurn /\ NoImagesTurn
    /\ Len(run.before.messages) > 0
    /\ Len(Added) = 3

\* The model calls of the script run that failed.
FailedCalls == { i \in 1..Len(run.llm) : ~run.llm[i].outcome.ok }
ErrorTextOf(i) == run.llm[i].outcome.error.message

IsAuthText(t) ==
    \/ Contains(t, "401")
    \/ Contains(lower(t), "authentication")
    \/ Contains(lower(t), "invalid")

FixedMessageFor(t) ==
    IF IsAuthText(t)
    THEN <<"Authentication failed. Please check your API key in the .env file.">>
    ELSE <<"Something went wrong while talking to the AI. Please try again.">>

ShownAsFixedMessage(i) ==
    /\ Len(run.shown) = 1
    /\ run.shown[1].kind = "error"
    /\ run.shown[1].text = FixedMessageFor(ErrorTextOf(i))

\* C7 as stated: in every flow a failed model call is shown as exactly one
\* of the two fixed messages, chosen by the error text.
C7_EveryFailureShown ==
    (Ran("text_chat") \/ Ran("image_solver") \/ Ran("explain_notes")) =>
        \A i \in FailedCalls : ShownAsFixedMessage(i)

\* C7: in every flow a failed model call, other than the best-effort call
\* made for the text that accompanies found images, is shown as exactly one
\* of the two fixed messages: the authentication hint when the error text
\* contains "401", "authentication" or "invalid", the try-again message
\* otherwise.  A failure of the call made with found images shows nothing.
\* The error text itself is never displayed.
C7_FailureShownAsFixedMessage ==
    (Ran("text_chat") \/ Ran("image_solver") \/ Ran("explain_notes")) =>
        /\ \A i \in FailedCalls :
             IF Ran("text_chat") /\ ImagesTurn
             THEN run.shown = <<>>
             ELSE ShownAsFixedMessage(i)
        /\ \A i \in FailedCalls, j \in 1..Len(run.shown) :
             /\ run.shown[j].text # ErrorTextOf(i)
             /\ \A a \in 1..Len(run.shown[j].text), b \in 1..Len(ErrorTextOf(i)) :
                  run.shown[j].text[a] # ErrorTextOf(i)[b]
        /\ \A i \in FailedCalls, j \in 1..Len(messages) :
             \A a \in 1..Len(messages[j].content), b \in 1..Len(ErrorTextOf(i)) :
               messages[j].content[a] # ErrorTextOf(i)[b]

C7_Witness ==
    /\ Ran("image_solver")
    /\ FailedCalls = {1}
    /\ ~Contains(ErrorTextOf(1), "401")
    /\ Contains(lower(ErrorTextOf(1)), "invalid")
    /\ run.shown[1].text =
         <<"Authentication failed. Please check your API key in the .env file.">>

\* The input the validators reject.
Extension(name) == lower(name)[Len(name)]
BadText(t) == IsBlank(t) \/ len(t) > 8000
BadFile(f) == ~f.present \/ Len(f.name) = 0 \/ Extension(f.name) \notin {".jpg", ".jpeg", ".png"}

ValidationFails ==
    \/ /\ Ran("text_chat") /\ ~run.input.clear_clicked
       /\ Truthy(run.input.user_input) /\ BadText(run.input.user_input.val)
    \/ Ran("image_solver") /\ run.input.solve_clicked /\ BadFile(run.input.uploaded_file)
    \/ /\ Ran("explain_notes") /\ run.input.explain_clicked
       /\ \/ run.input.mode = "text" /\ BadText(run.input.notes_text)
          \/ run.input.mode # "text" /\ BadFile(run.input.uploaded_file)

\* C8: when input validation fails in any flow (blank or over-8000-character
\* text, missing file or a file without a .jpg/.jpeg/.png extension), a
\* warning is shown, no OCR call, no image lookup and no model call is made,
\* and both session lists are left as they were.
C8_ValidationFailureStopsTheFlow ==
    ValidationFails =>
        /\ Len(run.shown) = 1 /\ run.shown[1].kind = "warning"
        /\ Len(run.shown[1].text) > 0
        /\ run.ocr = <<>> /\ run.lookups = <<>> /\ run.llm = <<>>
        /\ messages = run.before.messages
        /\ chat_history = run.before.chat_history

C8_Witness ==
    /\ Ran("text_chat")
    /\ ValidationFails
    /\ len(run.input.user_input.val) > 8000
    /\ Len(messages) > 0 /\ Len(chat_history) > 0

\* The text the model gave in the call that ended a gateway invocation.
RawTextOf(o) == o.calls[Len(o.calls)].result.text
Normalized(raw) ==
    IF Len(lstrip(raw)) > 0 /\ lstrip(raw)[1] = "#"
    THEN raw
    ELSE <<"#", "#", "#", " ", "Answer", "\n", "\n">> \o raw

\* C9: every text generate_llm_response returns is non-empty and, after
\* its leading whitespace is removed, starts with "#"; the assistant message
\* stored after a successful standard tutoring turn is exactly the
\* normalized model text (model text "Plants make food" is stored as
\* "### Answer\n\nPlants make food").
C9_ReturnedTextHasHeading ==
    run # NoRun =>
        /\ \A i \in 1..Len(run.llm) :
             run.llm[i].outcome.ok =>
                 LET text == run.llm[i].outcome.text IN
                 /\ Len(text) > 0
                 /\ Len(lstrip(text)) > 0 /\ lstrip(text)[1] = "#"
                 /\ text = Normalized(RawTextOf(run.llm[i].outcome))
        /\ (SuccessfulTurn /\ StandardTurn) =>
             LET raw == RawTextOf(run.llm[1].outcome)
                 stored == messages[Len(messages)]
             IN /\ stored = [role |-> "assistant", content |-> Normalized(raw)]
                /\ raw = <<"Plants make food">> =>
                     stored.content =
                       <<"#", "#", "#", " ", "Answer", "\n", "\n", "Plants make food">>

C9_Witness ==
    /\ SuccessfulTurn /\ StandardTurn
    /\ RawTextOf(run.llm[1].outcome) = <<"Plants make food">>
    /\ messages[Len(messages)].content =
         <<"#", "#", "#", " ", "Answer", "\n", "\n", "Plants make food">>

(***************************************************************************)
(* Claims about the normalizer's three cases.                              *)
(***************************************************************************)
FormatApplied == probe.fn = "ensure_markdown_headings" /\ probe.applied >= 1

\* The positions of the characters of a text that are not whitespace.
Inked(x) == { i \in 1..Len(x) : x[i] \notin {" ", "\n", "\t"} }
FirstInkIsHash(x) ==
    /\ Inked(x) # {}
    /\ x[CHOOSE i \in Inked(x) : \A j \in Inked(x) : i <= j] = "#"

\* C11: ensure_markdown_headings returns the empty string unchanged,
\* returns unchanged any text whose first non-whitespace character is "#",
\* and for every other text returns "### Answer", a blank line and then the
\* original text unmodified.
C11_NormalizerCases ==
    FormatApplied =>
        /\ probe.x = <<>> => probe.once = <<>>
        /\ FirstInkIsHash(probe.x) => probe.once = probe.x
        /\ (probe.x # <<>> /\ ~FirstInkIsHash(probe.x)) =>
             probe.once = <<"#", "#", "#", " ", "Answer", "\n", "\n">> \o probe.x

C11_Witness ==
    /\ FormatApplied
    /\ Len(probe.x) = 3 /\ probe.x[1] = "\n" /\ probe.x[2] = "#"
    /\ probe.once = probe.x

(***************************************************************************)
(* Claims about what openrouter_chat does before and after the request.    *)
(***************************************************************************)
\* The key is empty or blank, or starts with none of the accepted prefixes.
LeadOf(key) ==
    LET inked == { i \in 1..Len(key) : key[i] \notin {" ", "\n", "\t"} }
    IN key[CHOOSE i \in inked : \A j \in inked : i <= j]
KeyIsBlank(key) == \A i \in 1..Len(key) : key[i] \in {" ", "\n", "\t"}
KeyRefused(key) ==
    KeyIsBlank(key) \/ LeadOf(key) \notin {"sk-or-v1-", "sk-or-v1", "sk-"}

\* C12: local precondition failures never reach the network.
\* openrouter_chat raises without issuing an HTTP request when the API key
\* is empty or blank or has none of the accepted prefixes, or when the
\* message list is empty; generate_llm_response raises without invoking
\* openrouter_chat for any candidate when the prompt is empty or
\* whitespace-only.
C12_LocalFailuresStayLocal ==
    /\ ChatDone =>
         ((KeyRefused(probe.key) \/ probe.msgs = <<>>) =>
              ~probe.out.ok /\ ~probe.out.http)
    /\ GatewayDone =>
         /\ KeyIsBlank(probe.prompt) =>
              ~probe.out.ok /\ probe.out.calls = <<>>
         /\ KeyRefused(probe.key) =>
              /\ ~probe.out.ok
              /\ \A i \in 1..Len(probe.out.calls) : ~probe.out.calls[i].result.http

C12_Witness ==
    /\ GatewayDone
    /\ probe.prompt = <<" ", "\n">>
    /\ ~KeyRefused(probe.key)
    /\ ~probe.out.ok /\ probe.out.calls = <<>>

\* The upstream error text has "key", "api" or "auth" in it, in any case.
Sensitive(t) ==
    \/ Contains(lower(t), "key")
    \/ Contains(lower(t), "api")
    \/ Contains(lower(t), "auth")

\* No piece of the text t is in the message m.
Withheld(t, m) == \A i \in 1..Len(t), j \in 1..Len(m) : t[i] # m[j]

Status401Message ==
    <<"Authentication failed. Your OpenRouter API key is invalid or expired. Please check your `.env` file and ensure the key starts with 'sk-or-v1-'. Get a new key at: https://openrouter.ai/keys">>
Status429Message == <<"Rate limit exceeded. Please wait a moment and try again.">>
MaskedMessage(status_text) ==
    <<"OpenRouter API error (status ", status_text, "): ",
      "API authentication error. Please check your API key in the .env file.">>

\* A non-200 answer with a sensitive error text, to openrouter_chat alone
\* and to a candidate of generate_llm_response.
ChatSawSensitive ==
    /\ ChatDone /\ probe.out.http
    /\ probe.reply.kind = "response" /\ probe.reply.status # 200
    /\ Sensitive(probe.says.t)
SensitiveCalls ==
    { i \in 1..Len(probe.out.calls) :
        LET c == probe.out.calls[i] IN
        /\ c.result.http /\ c.reply.kind = "response" /\ c.reply.status # 200
        /\ Sensitive(c.reply.error_message) }

\* C13 as stated: for a non-200 response whose error text is sensitive the
\* error raised does not contain the upstream text, and what is put in its
\* place is a fixed authentication-error message.
C13_AuthMessageSubstituted ==
    ChatSawSensitive =>
        /\ ~probe.out.ok
        /\ Withheld(probe.says.t, probe.out.error.message)
        /\ \/ probe.out.error.message = Status401Message
           \/ /\ Len(probe.out.error.message) = 4
              /\ probe.out.error.message[4] = MaskedMessage("")[4]

\* C13: for a non-200 response whose upstream error text contains "key",
\* "api" or "auth" (in any case), the error raised by openrouter_chat, and
\* the composite error raised by generate_llm_response, does not contain the
\* upstream error text.  What is raised instead is fixed: the
\* authentication-failed message for status 401, the rate-limit message for
\* status 429, and for every other status the generic "API authentication
\* error" message after the status.
C13_UpstreamTextWithheld ==
    /\ ChatSawSensitive =>
         /\ ~probe.out.ok
         /\ Withheld(probe.says.t, probe.out.error.message)
         /\ probe.reply.status = 401 => probe.out.error.message = Status401Message
         /\ probe.reply.status = 429 => probe.out.error.message = Status429Message
         /\ probe.reply.status \notin {401, 429} =>
              /\ Len(probe.out.error.message) = 4
              /\ probe.out.error.message[1] = MaskedMessage("")[1]
              /\ probe.out.error.message[3] = MaskedMessage("")[3]
              /\ probe.out.error.message[4] = MaskedMessage("")[4]
    /\ GatewayDone =>
         \A i \in SensitiveCalls :
            /\ Withheld(probe.out.calls[i].reply.error_message,
                        probe.out.calls[i].result.error.message)
            /\ ~probe.out.ok =>
                 Withheld(probe.out.calls[i].reply.error_message, probe.out.error.message)

C13_Witness ==
    /\ GatewayDone
    /\ SensitiveCalls = {2}
    /\ probe.out.calls[2].reply.status = 500
    /\ ~probe.out.ok
    /\ probe.out.error.message[Len(probe.out.error.message)] = MaskedMessage("")[4]

\* openrouter_chat got an HTTP 200 answer.
ChatSaw200 ==
    /\ ChatDone /\ probe.out.http
    /\ probe.reply.kind = "response" /\ probe.reply.status = 200

FirstContent(reply) ==
    IF reply.has_choices /\ Len(reply.choices) > 0 /\ reply.choices[1].has_content
    THEN reply.choices[1].content
    ELSE <<>>

\* C14: on an HTTP 200 response openrouter_chat returns the content of the
\* first choice's message; it fails, not retryable, when the choices list is
\* missing or empty or that content is absent or empty; it never returns an
\* empty string.
C14_FirstChoiceOrFailure ==
    /\ (ChatSaw200 /\ probe.reply.json) =>
         IF FirstContent(probe.reply) # <<>>
         THEN probe.out.ok /\ probe.out.text = FirstContent(probe.reply)
         ELSE ~probe.out.ok /\ ~probe.out.error.is_model_error
    /\ (ChatDone /\ probe.out.ok) => Len(probe.out.text) > 0

C14_Witness ==
    /\ ChatSaw200
    /\ Len(probe.reply.choices) = 2
    /\ ~probe.reply.choices[1].has_content
    /\ probe.reply.choices[2].content # <<>>
    /\ ~probe.out.ok /\ ~probe.out.error.is_model_error

(***************************************************************************)
(* Claims about the messages generate_llm_response sends.                  *)
(***************************************************************************)
IsSent(entry) == entry.role \in {"user", "assistant"} /\ entry.content # <<>>
RoleAndContent(entries) ==
    [i \in 1..Len(entries) |-> [role |-> entries[i].role, content |-> entries[i].content]]

ExpectedMessages ==
    <<[role |-> "system",
       content |-> <<"You are StudyBuddy AI, a friendly and patient tutor helping students learn.">>]>>
    \o RoleAndContent(SelectSeq(probe.hist, IsSent))
    \o <<[role |-> "user", content |-> probe.prompt]>>

\* C15: the message sequence generate_llm_response sends to every
\* candidate model is one system message with the default persona, then the
\* history entries in their original order, only those with role user or
\* assistant and non-empty content, then one final user message whose
\* content is the prompt; every candidate is sent the same sequence.
C15_MessagesSent ==
    GatewayDone =>
        \A i \in 1..Len(probe.out.calls) :
            probe.out.calls[i].messages = ExpectedMessages

C15_Witness ==
    /\ GatewayDone
    /\ Len(probe.hist) = 4
    /\ Len(probe.out.calls) = 3
    /\ Len(probe.out.calls[3].messages) = 4
    /\ probe.out.calls[3].messages[3].role = "assistant"

(***************************************************************************)
(* Claims about the flows that read an image.                              *)
(***************************************************************************)
ImageFlow ==
    \/ Ran("image_solver")
    \/ Ran("explain_notes") /\ run.input.mode = "image"

OcrRaised == Len(run.ocr) = 1 /\ run.ocr[1].raised
OcrGaveNothing ==
    /\ Len(run.ocr) = 1 /\ ~run.ocr[1].raised
    /\ \A i \in 1..Len(run.ocr[1].text) : run.ocr[1].text[i] \in {" ", "\n", "\t"}
AnswerDisplayed == \E i \in 1..Len(run.shown) : run.shown[i].kind = "markdown"

\* C16: in the Image Doubt Solver flow and in the image mode of
\* Explain-My-Notes a model call is made only after OCR returned text that
\* is not empty after trimming.  When OCR returns empty or whitespace-only
\* text a warning is shown; when OCR raises, the could-not-read-the-image
\* error is shown, which is neither of the two model-failure messages; in
\* both cases no model call is made and no answer is displayed.
C16_ModelCallNeedsOcrText ==
    ImageFlow =>
        /\ run.llm # <<>> =>
             /\ Len(run.ocr) = 1 /\ ~run.ocr[1].raised
             /\ \E i \in 1..Len(run.ocr[1].text) : run.ocr[1].text[i] \notin {" ", "\n", "\t"}
        /\ OcrGaveNothing =>
             /\ run.shown = <<[kind |-> "warning", title |-> <<>>,
                               text |-> <<"I couldn't detect any readable text in the image. Please try a clearer photo.">>]>>
             /\ run.llm = <<>> /\ ~AnswerDisplayed
        /\ OcrRaised =>
             /\ Len(run.shown) = 1 /\ run.shown[1].kind = "error"
             /\ run.shown[1].text = <<"Could not read the image: ">> \o run.ocr[1].text
             /\ run.shown[1].text \notin
                  { <<"Authentication failed. Please check your API key in the .env file.">>,
                    <<"Something went wrong while talking to the AI. Please try again.">> }
             /\ run.llm = <<>> /\ ~AnswerDisplayed

C16_Witness ==
    /\ Ran("explain_notes") /\ run.input.mode = "image"
    /\ OcrGaveNothing /\ Len(run.ocr[1].text) > 0
    /\ run.shown[1].kind = "warning"
    /\ run.llm = <<>>

StatelessFlow == Ran("image_solver") \/ Ran("explain_notes")

\* C17: the Image Doubt Solver flow and the Explain-My-Notes flow, in text
\* and in image mode, leave the session message list and the legacy
\* exchange list unchanged on every outcome, and call the model with no
\* conversation history: every candidate is sent the persona and the prompt
\* only.
C17_StatelessFlows ==
    StatelessFlow =>
        /\ messages = run.before.messages
        /\ chat_history = run.before.chat_history
        /\ \A i \in 1..Len(run.llm) :
             /\ run.llm[i].history = <<>>
             /\ \A j \in 1..Len(run.llm[i].outcome.calls) :
                  LET sent == run.llm[i].outcome.calls[j].messages IN
                  Len(sent) = 2 /\ sent[1].role = "system" /\ sent[2].role = "user"

C17_Witness ==
    /\ Ran("explain_notes") /\ run.input.mode = "text"
    /\ Len(run.llm) = 1 /\ run.llm[1].outcome.ok
    /\ Len(messages) > 1 /\ Len(chat_history) > 0
    /\ AnswerDisplayed

(***************************************************************************)
(* Claims about the Text Chat Tutor turns and the session message list.    *)
(***************************************************************************)
\* C18: in a Text Chat Tutor turn where an image request is detected and
\* the lookup returns at least one URL, a failure of the model call made
\* for the accompanying text does not fail the turn: the assistant message
\* is still appended, the generic caption naming the query stands where the
\* model's text would (followed, as always, by the note naming the source
\* of the images), the image URLs are attached, and no error is shown.
C18_CaptionOnBlurbFailure ==
    (ImagesTurn /\ FailedCalls # {}) =>
        /\ run.rerun /\ run.shown = <<>>
        /\ KeptBefore /\ Len(Added) = 2
        /\ Added[1] = [role |-> "user", content |-> run.input.user_input.val]
        /\ Added[2] =
             [role |-> "assistant",
              content |-> <<"Here are images related to ">> \o run.lookups[1].query
                          \o <<".", "\n", "\n", "*Images from ", "Wikipedia", "*">>,
              images |-> run.lookups[1].result.images]
        /\ Len(Added[2].images) >= 1

C18_Witness ==
    /\ ImagesTurn /\ FailedCalls = {1}
    /\ run.lookups[1].query = <<"Isaac Newton">>
    /\ Len(messages[Len(messages)].images) = 3
    /\ messages[Len(messages)].content[1] = "Here are images related to "

OnlyUserAndAssistant ==
    \A i \in 1..Len(messages) : messages[i].role \in {"user", "assistant"}

\* A step of a clear operation, and what any other step does to the list.
ClearStep ==
    /\ run'.flow = "text_chat" /\ run'.input.clear_clicked
    /\ run = NoRun
GrowsByAppending ==
    /\ Len(messages') >= Len(messages)
    /\ SubSeq(messages', 1, Len(messages)) = messages

\* C19: after any sequence of flow invocations and clear operations the
\* session message list holds only messages with role user or assistant;
\* between clears it only grows by appending, the messages already stored
\* keeping their content and their order; a clear empties it in one step.
C19_AppendOnlyUntilCleared ==
    /\ []OnlyUserAndAssistant
    /\ [][IF ClearStep THEN messages' = <<>> ELSE GrowsByAppending]_vars

C19_Witness ==
    /\ Ran("text_chat") /\ run.input.clear_clicked
    /\ Len(run.before.messages) >= 4
    /\ messages = <<>>

(***************************************************************************)
(* Claims about the course of one flow invocation.                         *)
(***************************************************************************)
\* The event set a flow going.
Invoked ==
    \/ Ran("text_chat") /\ ~run.input.clear_clicked /\ Truthy(run.input.user_input)
    \/ Ran("image_solver") /\ run.input.solve_clicked
    \/ Ran("explain_notes") /\ run.input.explain_clicked

ValidationPassed ==
    /\ Len(run.validated) = 1
    /\ run.validated[1].is_valid
ValidationRefused == \E i \in 1..Len(run.validated) : ~run.validated[i].is_valid
SuccessfulCall == \E i \in 1..Len(run.llm) : run.llm[i].outcome.ok

\* The assistant messages the invocation stored, the notice apart.
StoredResults ==
    { i \in 1..Len(Added) :
        /\ Added[i].role = "assistant"
        /\ Added[i].content #
             <<"I couldn't find images for your request. Let me provide a text explanation instead.">> }
\* A text the model gave is on display or in the session list.
AnswerStored ==
    \E i \in 1..Len(Added), j \in 1..Len(run.llm) :
        /\ run.llm[j].outcome.ok
        /\ Added[i].role = "assistant"
        /\ Added[i].content = run.llm[j].outcome.text

\* Where the invocation ended.
ReachedFailed ==
    \/ ValidationRefused
    \/ OcrRaised \/ OcrGaveNothing
    \/ FailedCalls # {} /\ ~ImagesTurn
ReachedDone ==
    IF Ran("text_chat") THEN run.rerun /\ StoredResults # {} ELSE AnswerDisplayed

ModelCalledInOrder ==
    run.llm # <<>> =>
        /\ ValidationPassed
        /\ ImageFlow => (Len(run.ocr) = 1 /\ ~OcrRaised /\ ~OcrGaveNothing)

FailedIsFinal ==
    ReachedFailed =>
        /\ Len(run.shown) = 1 /\ run.shown[1].kind \in {"warning", "error"}
        /\ Len(run.shown[1].text) > 0
        /\ ~AnswerDisplayed /\ ~AnswerStored /\ ~SuccessfulCall
        /\ ~run.rerun
        /\ ValidationRefused => (run.ocr = <<>> /\ run.lookups = <<>> /\ run.llm = <<>>)
        /\ (OcrRaised \/ OcrGaveNothing) => run.llm = <<>>
        /\ FailedCalls # {} => (Len(run.llm) = 1 /\ StoredResults = {})

\* C20 as stated: every flow invocation ends in Done or Failed; the model
\* is called only after validation passed and, in the image flows, after
\* OCR; a result is displayed or stored only after a successful model call;
\* an invocation that reaches Failed shows a warning or an error, performs
\* no further step and displays or stores no model answer.
C20_ResultNeedsSuccessfulCall ==
    Invoked =>
        /\ ReachedDone # ReachedFailed
        /\ ModelCalledInOrder
        /\ (AnswerDisplayed \/ StoredResults # {}) => SuccessfulCall
        /\ FailedIsFinal

\* C20: every flow invocation ends in Done or Failed; the model is called
\* only after validation passed and, in the image flows, after OCR gave
\* text; a result is displayed or stored only after a successful model
\* call, except in a Text Chat Tutor turn that found images, which stores
\* its assistant message (the caption and the images) when the model call
\* failed too; an invocation that reaches Failed shows exactly one warning
\* or error, performs no further step and displays or stores no model
\* answer.
C20_InvocationCourse ==
    Invoked =>
        /\ ReachedDone # ReachedFailed
        /\ ModelCalledInOrder
        /\ (AnswerDisplayed \/ StoredResults # {}) => (SuccessfulCall \/ ImagesTurn)
        /\ (ImagesTurn /\ ~SuccessfulCall) => (ReachedDone /\ ~AnswerStored /\ run.shown = <<>>)
        /\ FailedIsFinal

C20_Witness ==
    /\ Invoked /\ Ran("text_chat") /\ NoImagesTurn
    /\ ReachedFailed /\ FailedCalls = {1}
    /\ Len(Added) = 2
    /\ run.shown[1].kind = "error"

(***************************************************************************)
(* Claims about validate_text_input.                                       *)
(***************************************************************************)
ValidateDone == probe.fn = "validate_text_input" /\ probe.done

\* The number of characters of a text made of the atoms above.
CountOf(t, a) == Cardinality({ i \in 1..Len(t) : t[i] = a })
Characters(t) ==
    7999 * CountOf(t, "x * 7999") + 8000 * CountOf(t, " * 8000")
    + CountOf(t, "x") + CountOf(t, " ")
OnlyWhitespace(t) == \A i \in 1..Len(t) : t[i] \in {" ", " * 8000"}

IsString == probe.text.type = "str"
TooLongMessage == <<"The ", probe.field_name, " is too long. Please shorten it a bit.">>
NamesTheField == \E i \in 1..Len(probe.out.error_msg) : probe.out.error_msg[i] = probe.field_name

\* C21 as stated: None, non-string values and empty or whitespace-only text
\* are rejected, any text longer than 8000 characters is rejected with the
\* "too long" message, every other text is accepted with an empty message,
\* and every rejection message names the field.
C21_LongTextGetsTooLong ==
    ValidateDone =>
        /\ (~IsString \/ OnlyWhitespace(probe.text.val)) => ~probe.out.is_valid
        /\ (IsString /\ Characters(probe.text.val) > 8000) =>
             (~probe.out.is_valid /\ probe.out.error_msg = TooLongMessage)
        /\ (IsString /\ ~OnlyWhitespace(probe.text.val) /\ Characters(probe.text.val) <= 8000) =>
             (probe.out.is_valid /\ probe.out.error_msg = <<>>)
        /\ ~probe.out.is_valid => NamesTheField

\* C21: validate_text_input rejects None, non-string values and empty or
\* whitespace-only text (a whitespace-only text of any length with the
\* "please enter" message), rejects every other text longer than 8000
\* characters with the "too long" message, and accepts every other text
\* with an empty message; a text of exactly 8000 characters is accepted and
\* one of 8001 is rejected; every rejection message names the field.
C21_TextValidation ==
    ValidateDone =>
        /\ probe.text.type = "None" =>
             probe.out = [is_valid |-> FALSE,
                          error_msg |-> <<"Please provide ", probe.field_name, ".">>]
        /\ probe.text.type \notin {"None", "str"} =>
             probe.out = [is_valid |-> FALSE,
                          error_msg |-> <<"The ", probe.field_name, " must be text.">>]
        /\ (IsString /\ OnlyWhitespace(probe.text.val)) =>
             probe.out = [is_valid |-> FALSE,
                          error_msg |-> <<"Please enter some ", probe.field_name, ".">>]
        /\ (IsString /\ ~OnlyWhitespace(probe.text.val)) =>
             IF Characters(probe.text.val) > 8000
             THEN probe.out = [is_valid |-> FALSE, error_msg |-> TooLongMessage]
             ELSE probe.out = [is_valid |-> TRUE, error_msg |-> <<>>]
        /\ ~probe.out.is_valid => NamesTheField

C21_Witness ==
    /\ ValidateDone /\ IsString
    /\ Characters(probe.text.val) = 8000
    /\ ~OnlyWhitespace(probe.text.val)
    /\ probe.out.is_valid

(***************************************************************************)
(* Claims about the tutoring prompt.                                       *)
(***************************************************************************)
PromptDone == probe.fn = "build_text_tutor_prompt" /\ probe.done

InstructionFor(task) ==
    CASE task = "Explain" ->
           "Explain the topic step by step in simple language. Use short sentences, everyday examples, and clear headings."
      [] task = "Examples" ->
           "Provide several practical examples that illustrate the main ideas. Start with very easy examples, then slightly harder ones."
      [] task = "Practice Questions" ->
           "Create 3-7 practice questions with answers and brief explanations. Include a mix of easy and moderate questions."
      [] task = "Quiz" ->
           "Create a short quiz of 5 questions. Show the correct answers and short explanations at the end."
      [] task = "Study Plan" ->
           "Create a clear, structured study plan with daily or weekly steps, estimated time, and learning goals for each step."
FiveTasks == {"Explain", "Examples", "Practice Questions", "Quiz", "Study Plan"}

\* The task type asked for, surrounding whitespace apart; "" for None.
Inner(t) == { i \in 1..Len(t) : t[i] \notin {" ", "\n", "\t"} }
AskedTask ==
    IF probe.task_type.type = "None" \/ Cardinality(Inner(probe.task_type.val)) # 1
    THEN ""
    ELSE probe.task_type.val[CHOOSE i \in Inner(probe.task_type.val) : TRUE]

InstructionsIn(prompt) ==
    { t \in FiveTasks : \E i \in 1..Len(prompt) : prompt[i] = InstructionFor(t) }

LastExchanges(hist) ==
    SubSeq(hist, IF Len(hist) > 3 THEN Len(hist) - 2 ELSE 1, Len(hist))

RECURSIVE StudentTutorLines(_)
StudentTutorLines(es) ==
    IF Len(es) = 0 THEN <<>>
    ELSE <<"Student: ">> \o es[1].user \o <<"\n", "Tutor: ">> \o es[1].assistant
         \o (IF Len(es) > 1 THEN <<"\n">> ELSE <<>>)
         \o StudentTutorLines(Tail(es))

PositionsOf(prompt, a) == { i \in 1..Len(prompt) : prompt[i] = a }
FirstOf(prompt, a) ==
    CHOOSE i \in PositionsOf(prompt, a) : \A j \in PositionsOf(prompt, a) : i <= j

\* what stands between the framing text and "Your job:"
HistoryBlockOf(prompt) ==
    IF PositionsOf(prompt, "Previous conversation:") = {} THEN <<>>
    ELSE SubSeq(prompt, FirstOf(prompt, "Previous conversation:"),
                FirstOf(prompt, "Your job:") - 1)

\* C23: the prompt embeds only the last 3 exchanges of the history (all of
\* them when there are 3 or fewer), in their original order, each as a
\* "Student: " line followed by a "Tutor: " line; with an empty history the
\* prompt has no history block at all.
C23_HistoryWindow ==
    PromptDone =>
        LET es == LastExchanges(probe.hist) IN
        /\ Len(probe.hist) = 0 =>
             /\ PositionsOf(probe.out, "Previous conversation:") = {}
             /\ PositionsOf(probe.out, "Student: ") = {}
             /\ PositionsOf(probe.out, "Tutor: ") = {}
        /\ Len(probe.hist) > 0 =>
             /\ HistoryBlockOf(probe.out) =
                  <<"Previous conversation:", "\n">> \o StudentTutorLines(es)
                  \o <<"\n", "\n">>
             /\ Cardinality(PositionsOf(probe.out, "Student: ")) = Len(es)
             /\ Cardinality(PositionsOf(probe.out, "Tutor: ")) = Len(es)

C23_Witness ==
    /\ PromptDone
    /\ Len(probe.hist) = 4
    /\ Cardinality(PositionsOf(probe.out, "Student: ")) = 3
    /\ \E i \in 1..Len(probe.out) - 1 :
         probe.out[i] = "Student: " /\ probe.out[i + 1] = "question " /\ probe.out[i + 2] = "2"

(***************************************************************************)
(* Claims about the Text Chat Tutor's session state.                       *)
(***************************************************************************)
\* the requests one model call of the turn made
RequestsOf(i) == run.llm[i].outcome.calls

\* C24: in a Text Chat turn the history passed to the model call is the
\* conversation as it was before the new user message was added, so every
\* request carries, between the system message and the final user prompt,
\* the messages of that earlier conversation and nothing else.
C24_HistoryBeforeUserMessage ==
    (ChatTurn /\ Len(run.llm) > 0) =>
        \A i \in 1..Len(run.llm) :
            /\ run.llm[i].history = run.before.messages
            /\ \A j \in 1..Len(RequestsOf(i)) :
                 LET sent == RequestsOf(i)[j].messages IN
                 SubSeq(sent, 2, Len(sent) - 1) = HistoryMessages(run.before.messages)

(***************************************************************************)
(* Claims about the number of requests of one generate_llm_response call.  *)
(***************************************************************************)
InFixedList(model) == \E i \in 1..Len(FALLBACK_MODELS) : FALLBACK_MODELS[i] = model

\* C25: one call of generate_llm_response ends after at most as many
\* requests as its plan has entries, 3 when the requested model is one of the
\* fixed list and 4 otherwise; the requests go to the plan's candidates in
\* order, so each candidate is requested at most once and a failed request
\* is never repeated against the same model.
C25_RequestsBoundedByPlan ==
    GatewayDone =>
        LET plan == probe.out.plan
            calls == probe.out.calls
        IN /\ Len(calls) <= Len(plan)
           /\ Len(calls) <= (IF InFixedList(probe.model) THEN 3 ELSE 4)
           /\ Len(plan) > 0 => Len(plan) = (IF InFixedList(probe.model) THEN 3 ELSE 4)
           /\ \A i \in 1..Len(calls) : calls[i].model = plan[i]
           /\ \A i, j \in 1..Len(calls) : i # j => calls[i].model # calls[j].model

\* C25 witness: a model outside the fixed list, and every candidate of the
\* four unavailable.
C25_Witness ==
    /\ GatewayDone
    /\ ~InFixedList(probe.model)
    /\ Len(probe.out.calls) = 4
    /\ ~probe.out.ok
    /\ \A i \in 1..4 : FailedModelUnavailable(probe.out.calls[i])

\* C26: a standard turn (no image request) whose model call fails leaves the
\* message list grown by exactly the new user message, with no assistant
\* message after it, and leaves the legacy exchange list as it was: the user
\* message is not rolled back.
C26_FailedTurnKeepsUserMessage ==
    (StandardTurn /\ FailedCalls # {}) =>
        /\ KeptBefore
        /\ Added = <<[role |-> "user", content |-> run.input.user_input.val]>>
        /\ chat_history = run.before.chat_history

\* C26 witness: the failure comes after an earlier, successful turn.
C26_Witness ==
    /\ StandardTurn /\ FailedCalls # {}
    /\ Len(run.before.messages) = 2
    /\ Len(messages) = 3
    /\ messages[3].role = "user"
    /\ Len(chat_history) = 1

(***************************************************************************)
(* Claims about run_app's gate.                                            *)
(***************************************************************************)
HandlerRan == Ran("text_chat") \/ Ran("image_solver") \/ Ran("explain_notes")

\* C27: run_app dispatches to the tab handlers only when the key is
\* non-empty and starts with an accepted prefix; with any other key the
\* script run stops before any flow runs: no model call, no OCR call, and no
\* change of the session's lists.
C27_GateBeforeHandlers ==
    /\ HandlerRan => ~KeyRefused(api_key)
    /\ (run # NoRun /\ KeyRefused(api_key)) =>
         /\ run.flow = "stopped"
         /\ Len(run.llm) = 0 /\ Len(run.ocr) = 0
         /\ Len(run.validated) = 0 /\ Len(run.lookups) = 0
         /\ messages = run.before.messages
         /\ chat_history = run.before.chat_history
    /\ KeyRefused(api_key) => messages = <<>> /\ chat_history = <<>>

\* C27 witness: a key that is present but has none of the prefixes.
C27_Witness ==
    /\ Ran("stopped")
    /\ Len(api_key) > 0
    /\ KeyRefused(api_key)
    /\ Len(run.shown) = 1

Cleared == Ran("text_chat") /\ run.input.clear_clicked

\* C28: when the clear control is activated, the message list and the legacy
\* exchange list become empty together, and in that invocation no user input
\* is validated or stored and no image lookup or model call is made, even if
\* a user input is present.
C28_ClearEmptiesBoth ==
    Cleared =>
        /\ messages = <<>> /\ chat_history = <<>>
        /\ Len(run.validated) = 0
        /\ Len(run.lookups) = 0
        /\ Len(run.llm) = 0
        /\ Len(run.shown) = 0

\* C28 witness: a conversation is cleared by an invocation that also carries
\* a user input.
C28_Witness ==
    /\ Cleared
    /\ Truthy(run.input.user_input)
    /\ Len(run.before.messages) > 0 /\ Len(run.before.chat_history) > 0
    /\ messages = <<>> /\ chat_history = <<>>

\* the legacy list grew during the script run
GainedExchange == Len(chat_history) > Len(run.before.chat_history)

\* C29: the legacy exchange list gains an entry exactly when a standard turn
\* succeeds, and the entry pairs the user input with the assistant response
\* stored for it; turns on the image-request path and failed turns add
\* nothing; so the list is never longer than the number of user messages in
\* the message list.
C29_LegacyListFollowsStandardTurns ==
    /\ Len(chat_history) <= UserTurns(messages)
    /\ run # NoRun =>
         /\ GainedExchange <=> (StandardTurn /\ SuccessfulCall)
         /\ GainedExchange =>
              /\ messages[Len(messages)].role = "assistant"
              /\ chat_history =
                   Append(run.before.chat_history,
                          [user |-> run.input.user_input.val,
                           assistant |-> messages[Len(messages)].content])
         /\ (~GainedExchange /\ ~Cleared) => chat_history = run.before.chat_history

\* C29 witness: a successful standard turn after a successful turn on the
\* image-request path.
C29_Witness ==
    /\ StandardTurn /\ SuccessfulCall /\ GainedExchange
    /\ Len(chat_history) = 1
    /\ UserTurns(messages) = 2

HasImages(msg) == "images" \in DOMAIN msg

\* C30: every stored message with an images field has the role assistant and
\* carries between 1 and 3 URLs; user messages, and assistant messages
\* produced without a successful image lookup, never carry an images field.
C30_ImagesOnlyFromLookup ==
    /\ \A i \in 1..Len(messages) :
         HasImages(messages[i]) =>
             /\ messages[i].role = "assistant"
             /\ Len(messages[i].images) >= 1
             /\ Len(messages[i].images) <= 3
    /\ (run # NoRun /\ ~Cleared /\ run.flow # "stopped") =>
         /\ KeptBefore
         /\ \A i \in 1..Len(Added) :
              HasImages(Added[i]) =>
                  /\ ImagesTurn
                  /\ i = Len(Added)
                  /\ Added[i].images = run.lookups[1].result.images

\* C30 witness: the lookup found four images and the turn stored three.
C30_Witness ==
    /\ ImagesTurn
    /\ Len(Added) = 2
    /\ ~HasImages(Added[1])
    /\ HasImages(Added[2])
    /\ Len(Added[2].images) = 3

====
